---- MODULE Spec2Model ----
(***************************************************************************)
(* Dextra: the deployment workflow (DeploymentWorkflow), the process       *)
(* supervisor (CommandRunner), the error classifier (ErrorDetector) and    *)
(* the recovery engine (RecoveryEngine).                                   *)
(*                                                                         *)
(* Texts (process output, error messages) are sequences of tokens.  A      *)
(* token is a record [k, s, n]: k = "w" a word or literal phrase s,        *)
(* k = "n" a digit run of value n, k = "p" an absolute path s, k = "nl" a  *)
(* line break.  A regular expression of the source is a sequence of        *)
(* pattern elements matched token by token.  Confidences are integers in   *)
(* units of 1/10000, so 0.9 is 9000.                                       *)
(***************************************************************************)
EXTENDS Integers, Sequences, FiniteSets, TLC

(* ------------------------------ tokens --------------------------------- *)
W(s) == [k |-> "w", s |-> s, n |-> 0]
N(n) == [k |-> "n", s |-> "", n |-> n]
P(s) == [k |-> "p", s |-> s, n |-> 0]
NL == [k |-> "nl", s |-> "", n |-> 0]

QuoteTokens == {W("'"), W("\"")}
UpperWords == {"API_KEY", "DB_URL"}
PeerWords == {"react@18", "vue@3"}

\* String.prototype.toLowerCase on the words of the vocabulary
LowerWord(s) ==
  CASE s = "Authentication failed" -> "authentication failed"
    [] s = "Token" -> "token"
    [] s = "Expired" -> "expired"
    [] s = "Invalid" -> "invalid"
    [] s = "Cannot find module" -> "cannot find module"
    [] s = "Build failed with errors" -> "build failed with errors"
    [] s = "API_KEY" -> "api_key"
    [] s = "DB_URL" -> "db_url"
    [] s = "EACCES: permission denied" -> "eacces: permission denied"
    [] s = "ENOENT" -> "enoent"
    [] s = "TS" -> "ts"
    [] s = "Error" -> "error"
    [] s = "SSL" -> "ssl"
    [] s = "Vercel" -> "vercel"
    [] s = "SyntaxError:" -> "syntaxerror:"
    [] s = "Unexpected token" -> "unexpected token"
    [] s = "npm WARN deprecated" -> "npm warn deprecated"
    [] s = "Build failed:" -> "build failed:"
    [] s = "Dependency installation failed:" -> "dependency installation failed:"
    [] s = "Deployment failed:" -> "deployment failed:"
    [] s = "Deployment timeout - status check exceeded maximum attempts" ->
         "deployment timeout - status check exceeded maximum attempts"
    [] s = "Project not found" -> "project not found"
    [] s = "Plugin not found for platform:" -> "plugin not found for platform:"
    [] s = "Failed to detect project configuration" -> "failed to detect project configuration"
    [] s = "Database not initialized" -> "database not initialized"
    [] s = "Cannot read properties of undefined" -> "cannot read properties of undefined"
    [] s = "getStatus failed" -> "getstatus failed"
    [] s = "Listener failed" -> "listener failed"
    [] OTHER -> s

Lower(tok) == [tok EXCEPT !.s = LowerWord(tok.s)]

(* -------------------------- pattern elements --------------------------- *)
\* a literal phrase; a (captured) single token of a class; a (captured) run
\* of tokens outside an excluded class: min = 0 for *, 1 for +
Lit(s) == [e |-> "lit", tok |-> W(s), cls |-> "", cap |-> FALSE, min |-> 0]
LitN(n) == [e |-> "lit", tok |-> N(n), cls |-> "", cap |-> FALSE, min |-> 0]
Tok(cls, cap) == [e |-> "tok", tok |-> NL, cls |-> cls, cap |-> cap, min |-> 0]
Run(cls, cap, min) == [e |-> "run", tok |-> NL, cls |-> cls, cap |-> cap, min |-> min]

\* character classes of the source's expressions, on tokens
InClass(tok, cls) ==
  CASE cls = "quote" -> tok \in QuoteTokens                       \* ['"]
    [] cls = "notquote" -> tok \notin QuoteTokens                 \* [^'"]
    [] cls = "digits" -> tok.k = "n"                              \* \d+
    [] cls = "upper" -> tok.k = "w" /\ tok.s \in UpperWords       \* [A-Z_]+
    [] cls = "peer" -> tok.k = "w" /\ tok.s \in PeerWords         \* [^@\s]+@[^\s]+
    [] cls = "nonspace" -> tok.k # "nl"                           \* [^\s]+
    [] cls = "dot" -> tok.k # "nl"                                \* .
    [] OTHER -> FALSE

NoMatch == [ok |-> FALSE, from |-> 0, to |-> 0, caps |-> <<>>]

\* F applied to the value of v
With(v, F(_)) == CHOOSE r \in {F(x) : x \in {v}} : TRUE

\* the least element of a set of positions, 0 for the empty set
Least(S) == With(S, LAMBDA T : IF T = {} THEN 0 ELSE CHOOSE x \in T : \A y \in T : x <= y)
Greatest(S) == With(S, LAMBDA T : CHOOSE x \in T : \A y \in T : x >= y)

\* a capture put in front of the captures of a match
PushCap(r, cap, c) == IF r.ok /\ cap THEN [r EXCEPT !.caps = <<c>> \o @] ELSE r

RECURSIVE MatchAt(_, _, _, _, _)

\* the pattern pat[j..] against text[i..]; to = index after the match
MatchAt(pat, j, text, i, ci) ==
  IF j > Len(pat) THEN [ok |-> TRUE, from |-> i, to |-> i, caps |-> <<>>]
  ELSE
    CASE pat[j].e = "lit" ->
           IF i <= Len(text)
              /\ (IF ci THEN Lower(text[i]) = Lower(pat[j].tok) ELSE text[i] = pat[j].tok)
           THEN MatchAt(pat, j + 1, text, i + 1, ci)
           ELSE NoMatch
      [] pat[j].e = "tok" ->
           IF i <= Len(text) /\ InClass(text[i], pat[j].cls)
           THEN With(MatchAt(pat, j + 1, text, i + 1, ci),
                     LAMBDA r : PushCap(r, pat[j].cap, SubSeq(text, i, i)))
           ELSE NoMatch
      [] OTHER ->
           \* greedy: the longest run of the class after which the rest matches
           With({n \in pat[j].min..(Len(text) - i + 1) :
                   /\ \A d \in 0..(n - 1) : InClass(text[i + d], pat[j].cls)
                   /\ MatchAt(pat, j + 1, text, i + n, ci).ok},
                LAMBDA lens :
                  IF lens = {} THEN NoMatch
                  ELSE With(Greatest(lens),
                            LAMBDA n : With(MatchAt(pat, j + 1, text, i + n, ci),
                                            LAMBDA r : PushCap(r, pat[j].cap,
                                                               SubSeq(text, i, i + n - 1)))))

\* String.prototype.match without the g flag: the leftmost match
Match(text, pat, ci) ==
  With(Least({i \in 1..(Len(text) + 1) : MatchAt(pat, 1, text, i, ci).ok}),
       LAMBDA i : IF i = 0 THEN NoMatch ELSE [MatchAt(pat, 1, text, i, ci) EXCEPT !.from = i])

\* match[0], the matched text
Matched(text, m) == SubSeq(text, m.from, m.to - 1)

(* ------------------ ErrorDetector: the pattern table ------------------- *)
Rule(name, pat, ci) == [name |-> name, pat |-> pat, ci |-> ci]

\* setupErrorPatterns: a Map iterates in insertion order
SetupErrorPatterns ==
  << Rule("missing_dependency", <<Lit("Cannot find module"), Tok("quote", FALSE), Run("notquote", TRUE, 1), Tok("quote", FALSE)>>, FALSE),
     Rule("missing_package", <<Lit("Module not found: Error: Can't resolve"), Tok("quote", FALSE), Run("notquote", TRUE, 1), Tok("quote", FALSE)>>, FALSE),
     Rule("peer_dependency", <<Lit("requires a peer of"), Tok("peer", TRUE)>>, FALSE),
     Rule("version_mismatch", <<Lit("version"), Tok("nonspace", TRUE), Lit("of"), Tok("nonspace", TRUE), Lit("is not compatible")>>, FALSE),
     Rule("typescript_error", <<Lit("error"), Lit("TS"), Tok("digits", TRUE), Lit(":")>>, FALSE),
     Rule("syntax_error", <<Lit("SyntaxError:"), Run("dot", TRUE, 1), Lit("at line"), Tok("digits", TRUE)>>, FALSE),
     Rule("import_error", <<Lit("Error: Cannot resolve module"), Tok("quote", FALSE), Run("notquote", TRUE, 1), Tok("quote", FALSE)>>, FALSE),
     Rule("build_failed", <<Lit("Build failed with errors")>>, FALSE),
     Rule("missing_env_var", <<Tok("quote", FALSE), Tok("upper", TRUE), Tok("quote", FALSE), Lit("is not defined")>>, FALSE),
     Rule("env_file_missing", <<Lit("ENOENT"), Run("dot", FALSE, 0), Lit(".env")>>, FALSE),
     Rule("invalid_env_value", <<Lit("Invalid value for environment variable")>>, FALSE),
     Rule("network_timeout", <<Lit("timeout of"), Tok("digits", TRUE), Lit("ms exceeded")>>, FALSE),
     Rule("connection_refused", <<Lit("ECONNREFUSED")>>, FALSE),
     Rule("dns_error", <<Lit("ENOTFOUND")>>, FALSE),
     Rule("ssl_error", <<Lit("SSL"), Run("dot", FALSE, 0), Lit("error")>>, FALSE),
     Rule("permission_denied", <<Lit("EACCES: permission denied")>>, FALSE),
     Rule("read_only_filesystem", <<Lit("EROFS: read-only file system")>>, FALSE),
     Rule("file_not_found", <<Lit("ENOENT"), Lit(": no such file or directory")>>, FALSE),
     Rule("auth_failed", <<Lit("Authentication failed")>>, FALSE),
     Rule("token_expired", <<Lit("token"), Run("dot", FALSE, 0), Lit("expired")>>, TRUE),
     Rule("invalid_token", <<Lit("invalid"), Run("dot", FALSE, 0), Lit("token")>>, TRUE),
     Rule("unauthorized", <<LitN(401), Run("dot", FALSE, 0), Lit("unauthorized")>>, TRUE),
     Rule("vercel_error", <<Lit("vercel"), Run("dot", FALSE, 0), Lit("error")>>, TRUE),
     Rule("render_error", <<Lit("render"), Run("dot", FALSE, 0), Lit("error")>>, TRUE),
     Rule("docker_error", <<Lit("docker"), Run("dot", FALSE, 0), Lit("error")>>, TRUE) >>

\* String.prototype.includes of a marker in one word of the vocabulary
WordIncludes(s, marker) ==
  CASE marker = "react" -> s \in {"react", "react-dom", "react@18"}
    [] marker = "vue" -> s \in {"vue", "vue@3"}
    [] marker = "angular" -> s \in {"angular"}
    [] marker = "next" -> s \in {"next"}
    [] marker = "nuxt" -> s \in {"nuxt"}
    [] marker = "vercel" -> s \in {"vercel"}
    [] marker = "render" -> s \in {"render"}
    [] marker = "docker" -> s \in {"docker"}
    [] marker = "github" -> s \in {"github"}
    [] OTHER -> FALSE

Includes(text, marker) == \E i \in 1..Len(text) : WordIncludes(text[i].s, marker)

\* extractContext: the framework and platform markers ("" when absent)
extractContext(output) ==
  [framework |->
     IF Includes(output, "react") THEN "react"
     ELSE IF Includes(output, "vue") THEN "vue"
     ELSE IF Includes(output, "angular") THEN "angular"
     ELSE IF Includes(output, "next") THEN "next"
     ELSE IF Includes(output, "nuxt") THEN "nuxt" ELSE "",
   platform |->
     IF Includes(output, "vercel") THEN "vercel"
     ELSE IF Includes(output, "render") THEN "render"
     ELSE IF Includes(output, "docker") THEN "docker"
     ELSE IF Includes(output, "github") THEN "github" ELSE ""]

\* the first line of a text: split('\n')[0]
RECURSIVE FirstLine(_)
FirstLine(text) ==
  IF text = <<>> \/ Head(text) = NL THEN <<>> ELSE <<Head(text)>> \o FirstLine(Tail(text))

\* String.prototype.trim: line breaks are the only white space of a text
RECURSIVE TrimLeft(_)
TrimLeft(text) == IF text # <<>> /\ Head(text) = NL THEN TrimLeft(Tail(text)) ELSE text
RECURSIVE TrimRight(_)
TrimRight(text) ==
  IF text # <<>> /\ text[Len(text)] = NL THEN TrimRight(SubSeq(text, 1, Len(text) - 1)) ELSE text
Trim(text) == TrimRight(TrimLeft(text))

\* replace(/\d+/g, '0'): every digit run becomes 0
DigitsReplaced(text) == [i \in 1..Len(text) |-> IF text[i].k = "n" THEN N(0) ELSE text[i]]

\* replace(/\/[^\s]+/g, '/path'): a token of kind p is a slash and the non-blank
\* characters after it, which is what the expression matches
PathsReplaced(text) == [i \in 1..Len(text) |-> IF text[i].k = "p" THEN P("/path") ELSE text[i]]

\* toLowerCase of a text
LowerText(text) == [i \in 1..Len(text) |-> Lower(text[i])]

\* the hash of the text as it is, without the replacements
HashOfRawText(content) == Trim(LowerText(content))

\* generateErrorHash: the digest of the normalized text.  The digest is taken as
\* one-to-one, so the normalized text stands for it; the third replacement
\* (at line \d+) finds no digit run but the 0 it writes back
generateErrorHash(content) == Trim(LowerText(PathsReplaced(DigitsReplaced(content))))

UnknownError == <<W("Unknown error")>>
Cap(m, c) == IF c <= Len(m.caps) THEN m.caps[c] ELSE <<>>

\* the type/severity/suggestions switch of createErrorSignature
SignatureKind(errorType, m) ==
  CASE errorType \in {"missing_dependency", "missing_package"} ->
         [type |-> "dependency_error", severity |-> "high",
          suggestions |-> << <<W("Install missing package: npm install")>> \o Cap(m, 1),
                             <<W("Check if package is in dependencies vs devDependencies")>>,
                             <<W("Verify package name spelling")>> >>]
    [] errorType = "peer_dependency" ->
         [type |-> "dependency_error", severity |-> "medium",
          suggestions |-> << <<W("Install peer dependency: npm install")>> \o Cap(m, 1),
                             <<W("Check package documentation for required peer dependencies")>> >>]
    [] errorType = "version_mismatch" ->
         [type |-> "dependency_error", severity |-> "high",
          suggestions |-> << <<W("Update package versions to compatible ranges")>>,
                             <<W("Use npm ls to check dependency tree")>>,
                             <<W("Consider using npm update")>> >>]
    [] errorType \in {"typescript_error", "syntax_error"} ->
         [type |-> "build_error", severity |-> "high",
          suggestions |-> << <<W("Fix TypeScript/syntax errors in source code")>>,
                             <<W("Check TypeScript configuration")>>,
                             <<W("Update TypeScript version if needed")>> >>]
    [] errorType = "missing_env_var" ->
         [type |-> "config_error", severity |-> "medium",
          suggestions |-> << <<W("Set environment variable:")>> \o Cap(m, 1) \o <<W("=value")>>,
                             <<W("Create .env file with required variables")>>,
                             <<W("Check deployment platform environment settings")>> >>]
    [] errorType \in {"auth_failed", "token_expired", "invalid_token"} ->
         [type |-> "auth_error", severity |-> "critical",
          suggestions |-> << <<W("Refresh authentication token")>>,
                             <<W("Re-authenticate with platform")>>,
                             <<W("Check token permissions and scope")>> >>]
    [] errorType \in {"network_timeout", "connection_refused", "dns_error"} ->
         [type |-> "network_error", severity |-> "medium",
          suggestions |-> << <<W("Check internet connection")>>,
                             <<W("Verify API endpoints are accessible")>>,
                             <<W("Try again after network issues resolve")>> >>]
    [] errorType \in {"permission_denied", "read_only_filesystem"} ->
         [type |-> "permission_error", severity |-> "high",
          suggestions |-> << <<W("Check file/folder permissions")>>,
                             <<W("Run with appropriate user privileges")>>,
                             <<W("Verify write access to target directory")>> >>]
    [] OTHER ->
         [type |-> "build_error", severity |-> "medium",
          suggestions |-> << <<W("Check error logs for more details")>>,
                             <<W("Try rebuilding the project")>> >>]

NoSignature ==
  [found |-> FALSE, rule |-> "", type |-> "", hash |-> <<>>, severity |-> "", message |-> <<>>,
   context |-> [framework |-> "", platform |-> ""], suggestions |-> <<>>]

SignatureFor(errorType, kind, m0, fullOutput) ==
  [found |-> TRUE, rule |-> errorType, type |-> kind.type,
   hash |-> generateErrorHash(fullOutput), severity |-> kind.severity,
   message |-> IF m0 # <<>> THEN m0
               ELSE IF FirstLine(fullOutput) # <<>> THEN FirstLine(fullOutput)
               ELSE UnknownError,
   context |-> extractContext(fullOutput), suggestions |-> kind.suggestions]

createErrorSignature(errorType, m, fullOutput) ==
  With(m, LAMBDA match :
    With(SignatureKind(errorType, match), LAMBDA kind :
      SignatureFor(errorType, kind, Matched(fullOutput, match), fullOutput)))

createGenericErrorSignature(stderr, fullOutput) ==
  [found |-> TRUE, rule |-> "generic", type |-> "build_error",
   hash |-> generateErrorHash(fullOutput), severity |-> "medium",
   message |-> IF FirstLine(stderr) # <<>> THEN FirstLine(stderr) ELSE UnknownError,
   context |-> extractContext(fullOutput),
   suggestions |-> << <<W("Check error logs for more details")>>,
                      <<W("Verify project configuration")>>,
                      <<W("Try rebuilding the project")>> >>]

\* the loop over the patterns returning the last one that matches
LastPattern(pats, combinedOutput) ==
  With({r \in 1..Len(pats) : Match(combinedOutput, pats[r].pat, pats[r].ci).ok},
       LAMBDA hits : IF hits = {} THEN 0 ELSE Greatest(hits))

\* the loop over the patterns: the index of the first one that matches, 0 when none
FirstPattern(pats, combinedOutput) ==
  Least({r \in 1..Len(pats) : Match(combinedOutput, pats[r].pat, pats[r].ci).ok})

SignatureAt(pats, r, stderr, combinedOutput) ==
  IF r # 0
  THEN createErrorSignature(pats[r].name, Match(combinedOutput, pats[r].pat, pats[r].ci),
                            combinedOutput)
  ELSE IF Trim(stderr) # <<>>
  THEN createGenericErrorSignature(stderr, combinedOutput)
  ELSE NoSignature

SignatureOf(pats, stderr, combinedOutput) ==
  With(combinedOutput, LAMBDA out :
    With(FirstPattern(pats, out), LAMBDA r : SignatureAt(pats, r, stderr, out)))

\* detectError over the patterns of a detector whose initialized flag is init
detectErrorIn(init, pats, stderr, stdout) ==
  IF ~init THEN NoSignature ELSE SignatureOf(pats, stderr, stderr \o <<NL>> \o stdout)

(* ------------------------- RecoveryEngine ------------------------------ *)
\* a RecoveryAction; pkg is params.package (<<>> when the action has none)
Action(name, pkg, conf, time, risk, prereqs, alts) ==
  [action |-> name, pkg |-> pkg, confidence |-> conf, estimatedTime |-> time,
   riskLevel |-> risk, prerequisites |-> prereqs, alternatives |-> alts]

Alt(name, conf, prereqs) == [action |-> name, confidence |-> conf, prerequisites |-> prereqs]

\* errorPattern is a sequence of branches: one for every rule but the
\* alternation (a|b|c) of the authentication rule
RecoveryRule(gen, branches, ci, priority) ==
  [gen |-> gen, branches |-> branches, ci |-> ci, priority |-> priority, enabled |-> TRUE]

\* setupRecoveryRules, in registration order
SetupRecoveryRules ==
  << RecoveryRule("install_dependency", << <<Lit("Cannot find module"), Tok("quote", FALSE), Run("notquote", TRUE, 1), Tok("quote", FALSE)>> >>, FALSE, 1),
     RecoveryRule("install_peer_dependency", << <<Lit("requires a peer of"), Tok("peer", TRUE)>> >>, FALSE, 1),
     RecoveryRule("set_env_variable", << <<Tok("quote", FALSE), Tok("upper", TRUE), Tok("quote", FALSE), Lit("is not defined")>> >>, FALSE, 2),
     RecoveryRule("create_env_file", << <<Lit("ENOENT"), Run("dot", FALSE, 0), Lit(".env")>> >>, FALSE, 2),
     RecoveryRule("clear_cache_and_retry", << <<Lit("Build failed with errors")>> >>, FALSE, 3),
     RecoveryRule("typescript", << <<Lit("error"), Lit("TS"), Tok("digits", TRUE), Lit(":")>> >>, FALSE, 2),
     RecoveryRule("refresh_auth_token",
                  << <<Lit("token"), Run("dot", FALSE, 0), Lit("expired")>>,
                     <<Lit("invalid"), Run("dot", FALSE, 0), Lit("token")>>,
                     <<Lit("authentication failed")>> >>, TRUE, 1),
     RecoveryRule("retry_with_backoff", << <<Lit("timeout of"), Tok("digits", TRUE), Lit("ms exceeded")>> >>, FALSE, 3),
     RecoveryRule("fix_permissions", << <<Lit("EACCES: permission denied")>> >>, FALSE, 2),
     RecoveryRule("upgrade_dependency", << <<Lit("version"), Tok("nonspace", TRUE), Lit("of"), Tok("nonspace", TRUE), Lit("is not compatible")>> >>, FALSE, 2) >>

\* of the matches of the branches, the leftmost, the earlier branch on a tie
FirstBranch(ms) ==
  IF \A b \in DOMAIN ms : ~ms[b].ok THEN NoMatch
  ELSE ms[CHOOSE b \in DOMAIN ms :
            /\ ms[b].ok
            /\ \A c \in DOMAIN ms :
                 ms[c].ok => (ms[b].from < ms[c].from \/ (ms[b].from = ms[c].from /\ b <= c))]

\* message.match(rule.errorPattern)
RuleMatch(rule, message) ==
  With(rule, LAMBDA r :
    With(message, LAMBDA text :
      With([b \in 1..Len(r.branches) |-> Match(text, r.branches[b], r.ci)], FirstBranch)))

\* the actionGenerator of each rule
Generate(gen, m) ==
  CASE gen = "install_dependency" ->
         Action("install_dependency", Cap(m, 1), 9500, 30, "low", <<"npm", "yarn", "pnpm">>,
                <<Alt("install_dev_dependency", 8000, <<>>)>>)
    [] gen = "install_peer_dependency" ->
         Action("install_peer_dependency", Cap(m, 1), 9000, 30, "low", <<>>, <<>>)
    [] gen = "set_env_variable" ->
         Action("set_env_variable", <<>>, 8500, 60, "low", <<"user_input">>, <<>>)
    [] gen = "create_env_file" ->
         Action("create_env_file", <<>>, 8000, 120, "low", <<"user_input">>, <<>>)
    [] gen = "clear_cache_and_retry" ->
         Action("clear_cache_and_retry", <<>>, 7000, 60, "low", <<>>,
                <<Alt("clear_all_cache", 8500, <<>>)>>)
    [] gen = "typescript" ->
         LET tsErrorCode == Cap(m, 1)[1].n IN
         IF tsErrorCode >= 2300 /\ tsErrorCode < 2400
         THEN Action("fix_typescript_config", <<>>, 7500, 120, "medium", <<"typescript_config">>, <<>>)
         ELSE Action("fix_typescript_errors", <<>>, 6000, 300, "medium", <<"manual_fix">>, <<>>)
    [] gen = "refresh_auth_token" ->
         Action("refresh_auth_token", <<>>, 9000, 60, "low", <<"user_reauth">>, <<>>)
    [] gen = "retry_with_backoff" ->
         Action("retry_with_backoff", <<>>, 8000, 30, "low", <<>>, <<>>)
    [] gen = "fix_permissions" ->
         Action("fix_permissions", <<>>, 8500, 30, "medium", <<"admin_access">>, <<>>)
    [] gen = "upgrade_dependency" ->
         Action("upgrade_dependency", Cap(m, 2), 7500, 120, "medium", <<>>,
                <<Alt("downgrade_dependency", 7000, <<>>)>>)
    \* generators of rules a caller adds: a confidence of 2.0, one of 0.01
    [] gen = "caller_sure" -> Action("custom_fix", <<>>, 20000, 10, "low", <<>>, <<>>)
    [] OTHER -> Action("custom_hint", Cap(m, 1), 100, 10, "low", <<>>, <<>>)

\* a generator a caller wrote that throws
GeneratorThrows(gen) == gen = "caller_throws"

getGenericRecoveryAction ==
  Action("generic_retry", <<>>, 3000, 30, "low", <<>>,
         <<Alt("manual_investigation", 5000, <<"user_intervention">>)>>)

\* compatibilityMap[framework] || 0.8, in tenths
checkFrameworkCompatibility(framework) ==
  IF framework \in {"react", "vue", "angular", "next", "nuxt"} THEN 10 ELSE 8

\* the severity factor, in tenths
SeverityFactor(severity) ==
  CASE severity = "critical" -> 9
    [] severity = "high" -> 10
    [] severity = "medium" -> 11
    [] severity = "low" -> 12
    [] OTHER -> 10

Max(a, b) == IF a >= b THEN a ELSE b
Min(a, b) == IF a <= b THEN a ELSE b

\* adjustConfidence applying the framework factor to every action with a package
AdjustAlwaysFramework(action, sig) ==
  LET bySeverity == action.confidence * SeverityFactor(sig.severity)
      byFramework == IF action.pkg # <<>>
                     THEN bySeverity * checkFrameworkCompatibility(sig.context.framework)
                     ELSE bySeverity * 10
  IN Max(1000, Min(10000, byFramework \div 100))

\* adjustConfidence without the final clamp
AdjustUnclamped(action, sig) ==
  LET bySeverity == action.confidence * SeverityFactor(sig.severity)
      byFramework == IF sig.context.framework # "" /\ action.pkg # <<>>
                     THEN bySeverity * checkFrameworkCompatibility(sig.context.framework)
                     ELSE bySeverity * 10
  IN byFramework \div 100

\* adjustConfidence: base (1/10000) times the factors (tenths), clamped to [0.1, 1.0]
adjustConfidence(action, sig) ==
  LET bySeverity == action.confidence * SeverityFactor(sig.severity)
      byFramework == IF sig.context.framework # "" /\ action.pkg # <<>>
                     THEN bySeverity * checkFrameworkCompatibility(sig.context.framework)
                     ELSE bySeverity * 10
  IN Max(1000, Min(10000, byFramework \div 100))

NoAction == Action("none", <<>>, 0, 0, "low", <<>>, <<>>)

\* [...rules].sort((a, b) => b.priority - a.priority): a stable sort, so the
\* k-th rule is the one with k-1 rules before it in (priority desc, index asc)
SortedRules(rules) ==
  [k \in 1..Len(rules) |->
     rules[CHOOSE i \in 1..Len(rules) :
             Cardinality({j \in 1..Len(rules) :
                            \/ rules[j].priority > rules[i].priority
                            \/ (rules[j].priority = rules[i].priority /\ j < i)}) = k - 1]]

\* the confidence of a generated action replaced by the adjusted one
Adjusted(action, sig) == [action EXCEPT !.confidence = adjustConfidence(action, sig)]

\* rule.actionGenerator(match, errorSignature) followed by adjustConfidence
ActionOfRule(rule, sig) ==
  With(RuleMatch(rule, sig.message), LAMBDA m :
    With(Generate(rule.gen, m), LAMBDA action : Adjusted(action, sig)))

\* the loop over the sorted rules: the index of the first enabled rule whose
\* pattern matches the message and whose generator returns (an exception of the
\* generator is caught and the loop goes on), 0 when there is none
FirstHit(sorted, message) ==
  Least({k \in 1..Len(sorted) : /\ sorted[k].enabled
                                 /\ RuleMatch(sorted[k], message).ok
                                 /\ ~GeneratorThrows(sorted[k].gen)})

\* what the loop returns at index k, the generic action after the loop
ActionAt(sorted, k, sig) ==
  IF k = 0 THEN getGenericRecoveryAction ELSE ActionOfRule(sorted[k], sig)

ActionOfSorted(sorted, sig) ==
  With(FirstHit(sorted, sig.message), LAMBDA k : ActionAt(sorted, k, sig))

\* getRecoveryAction over the rules of an engine whose initialized flag is init;
\* "none" stands for the null it returns before initialize
getRecoveryActionIn(init, rules, sig) ==
  IF ~init THEN NoAction
  ELSE With(sig, LAMBDA s :
         With(SortedRules(rules), LAMBDA sorted : ActionOfSorted(sorted, s)))

(* ------------------------------ bounds --------------------------------- *)
MaxProcs == 2      \* process records the model keeps at a time
MaxChunks == 1     \* output chunks one process writes
MaxOutputs == 2    \* output chunks one process writes when only its output is followed
MaxCancels == 2    \* calls of cancelTask
MaxBuilds == 2     \* the count of build attempts saturates here

(* ----------------------------- the state ------------------------------- *)
VARIABLES
  deployment,       \* the deployId and url the adapter reported, and the result of the run
  faulty,           \* a listener that throws is subscribed to the workflow's task:phase
  options,          \* the DeploymentOptions executeDeployment was called with
  initialized,      \* DeploymentWorkflow.initialize has run: database open, plugins
                    \* registered, detector and engine initialized
  pc,               \* where the executeDeployment run is suspended
  outcome,          \* what executeDeployment returned: "none" while it runs
  err,              \* the error caught by executeDeployment: [kind, message]
  attempts,         \* pollDeploymentStatus: attempts
  polled,           \* pollDeploymentStatus: status.status of the last getStatus ("": none yet)
  awaiting,         \* the handle of the process whose result the run awaits (0: none)
  buildRuns,        \* entries of buildProject in this run (saturating)
  applied,          \* the action last handed to executeRecoveryAction
  invoked,          \* how often the run called detectError and getRecoveryAction
                    \* (saturating), and whether attemptRecovery caught an exception
  activeTasks,      \* DeploymentWorkflow.activeTasks: its keys
  task,             \* the Task object held in activeTasks
  lastUpdate,       \* the status/progress last written through database.updateTask
  dbTasks,          \* the tasks table: row id -> row
  phaseLog,         \* the phases of the task:phase events, in order
  events,           \* how many events of each kind were emitted
  cancelPc,         \* cancelTask: "idle", or "await" inside updateTaskStatus
  cancelCalls,      \* calls of cancelTask so far
  cancelRet,        \* what the last finished cancelTask returned
  procs,            \* CommandRunner: handle -> child process, timers and promise
  activeProcesses,  \* CommandRunner.activeProcesses: its keys
  listening,        \* a listener is subscribed to the runner's 'error' event
  uncaught,         \* an exception left an event handler uncaught
  killAll,          \* the 5 s timer of killAllProcesses: "none", "armed", "done"
  detectCall,       \* a call of ErrorDetector.detectError: its arguments and its result
  recoveryRules,    \* RecoveryEngine.recoveryRules
  engineCall        \* the last call of a public method of the RecoveryEngine

wfVars == <<deployment, faulty, options, invoked, recoveryRules, engineCall, detectCall, polled, initialized, pc, outcome, err, attempts, awaiting, buildRuns, applied, activeTasks,
            task, lastUpdate, dbTasks, phaseLog, events, cancelPc, cancelCalls, cancelRet>>
runnerVars == <<procs, activeProcesses, listening, uncaught, killAll>>
vars == <<wfVars, runnerVars>>

(* ---------------------------- CommandRunner ---------------------------- *)
Handles == 1..MaxProcs

\* the texts a child process writes
Quote == W("'")
MissingModuleText == <<W("Cannot find module"), Quote, W("left-pad"), Quote>>
PeerText == <<W("requires a peer of"), W("react@18")>>
EnvVarText == <<Quote, W("API_KEY"), Quote, W("is not defined")>>
PermissionText == <<W("EACCES: permission denied"), W(", open"), P("/srv/app/dist")>>
PlainText == <<W("make: *** [all]"), W("Error"), N(2)>>
StderrTexts == {MissingModuleText, PeerText, EnvVarText, PermissionText, PlainText}
StdoutTexts == {<<W("compiled"), N(12), W("modules"), NL>>}

NoResult == [success |-> FALSE, stdout |-> <<>>, stderr |-> <<>>, exitCode |-> 0]

FreeProc ==
  [state |-> "free",        \* "free", "live", "closed" (close handled), "errored" (error handled)
   via |-> "",              \* "execute" or "stream"
   owner |-> "",            \* who started it: "run" (the workflow run) or "api"
   command |-> <<>>,        \* the executable and its arguments
   ignoresTerm |-> FALSE,   \* the child ignores SIGTERM
   sigterm |-> FALSE,       \* SIGTERM was delivered
   sigkill |-> FALSE,       \* SIGKILL was delivered
   killed |-> FALSE,        \* ChildProcess.killed
   stdout |-> <<>>, stderr |-> <<>>, chunks |-> 0,
   outEvents |-> <<>>,      \* the outputs of the 'stdout' events emitted with this handle
   errEvents |-> <<>>,      \* the outputs of the 'stderr' events emitted with this handle
   timer |-> "none",        \* the timeout timer: "none", "armed", "fired", "cleared"
   grace |-> "none",        \* the 5 s timer set when the timeout fired: "none", "armed", "done"
   killGrace |-> "none",    \* the 5 s timer set by killProcess: "none", "armed", "done"
   killRet |-> "none",      \* what the last killProcess on the handle returned
   byKillAll |-> FALSE,     \* killAllProcesses sent it SIGTERM
   promise |-> "none",      \* "pending", "resolved", "rejected"
   result |-> NoResult]

\* spawn and the registration of execute / executeWithStream
Spawned(via, owner, ignores, timeout) ==
  [FreeProc EXCEPT !.state = "live", !.via = via, !.owner = owner, !.ignoresTerm = ignores,
                   !.timer = IF timeout THEN "armed" ELSE "none", !.promise = "pending"]

\* ChildProcess.kill(signal): delivers the signal to a child that still runs and
\* only then sets killed
Kill(p, sig) ==
  IF p.state # "live" THEN p
  ELSE [p EXCEPT !.killed = TRUE,
                 !.sigterm = @ \/ sig = "SIGTERM",
                 !.sigkill = @ \/ sig = "SIGKILL"]

\* the 5 s callback of execute's timeout: if (!childProcess.killed) kill('SIGKILL')
ForceKill(p) == IF ~p.killed THEN Kill(p, "SIGKILL") ELSE p

\* the timeout callback: SIGTERM, and in execute the 5 s timer
OnTimeout(p) ==
  [Kill(p, "SIGTERM") EXCEPT !.timer = "fired",
                             !.grace = IF p.via = "execute" THEN "armed" ELSE "none"]

\* the result built by the close handler; bySignal: code is null
CloseResult(p, code, bySignal) ==
  [success |-> ~bySignal /\ code = 0,
   stdout |-> Trim(p.stdout), stderr |-> Trim(p.stderr),
   exitCode |-> IF bySignal THEN 0 ELSE code]

\* the close handler
OnClose(p, code, bySignal) ==
  [p EXCEPT !.state = "closed",
            !.timer = IF @ = "armed" THEN "cleared" ELSE @,
            !.promise = "resolved",
            !.result = CloseResult(p, code, bySignal)]

SpawnErrorText == <<W("spawn"), W("ENOENT")>>

\* the error handler up to emit('error'), which throws when nobody listens, so
\* that reject is not reached
OnError(p, heard) ==
  [p EXCEPT !.state = "errored",
            !.timer = IF @ = "armed" THEN "cleared" ELSE @,
            !.promise = IF heard THEN "rejected" ELSE @,
            !.result = [success |-> FALSE, stdout |-> Trim(p.stdout),
                        stderr |-> Trim(p.stderr) \o (IF p.stderr # <<>> THEN <<NL>> ELSE <<>>)
                                     \o SpawnErrorText,
                        exitCode |-> 0 - 1]]

FreeHandles == {h \in Handles : procs[h].state = "free"}
NewHandle == CHOOSE h \in FreeHandles : \A g \in FreeHandles : h <= g

\* a chunk on stdout or stderr: accumulated (and emitted)
\* the data handlers accumulating the chunks in reverse order
DataPrepends(h, max) ==
  /\ ~uncaught /\ procs[h].state = "live" /\ procs[h].chunks < max
  /\ \/ \E t \in StderrTexts :
          procs' = [procs EXCEPT ![h].stderr = t \o @, ![h].errEvents = @ \o t,
                                 ![h].chunks = @ + 1]
     \/ \E t \in StdoutTexts :
          procs' = [procs EXCEPT ![h].stdout = t \o @, ![h].outEvents = @ \o t,
                                 ![h].chunks = @ + 1]
  /\ UNCHANGED <<wfVars, activeProcesses, listening, uncaught, killAll>>

\* a chunk arrives on stdout or stderr: the data handler appends it to the
\* captured text and emits it with the processId (at most max chunks)
Data(h, max) ==
  /\ ~uncaught /\ procs[h].state = "live" /\ procs[h].chunks < max
  /\ \/ \E t \in StderrTexts :
          procs' = [procs EXCEPT ![h].stderr = @ \o t, ![h].errEvents = @ \o t,
                                 ![h].chunks = @ + 1]
     \/ \E t \in StdoutTexts :
          procs' = [procs EXCEPT ![h].stdout = @ \o t, ![h].outEvents = @ \o t,
                                 ![h].chunks = @ + 1]
  /\ UNCHANGED <<wfVars, activeProcesses, listening, uncaught, killAll>>

ProcData(h) == Data(h, MaxChunks)

\* the close handler emptying activeProcesses
ProcExitClearsMap(h) ==
  /\ ~uncaught /\ procs[h].state = "live"
  /\ \E code \in {0, 1} : procs' = [procs EXCEPT ![h] = OnClose(@, code, FALSE)]
  /\ activeProcesses' = {}
  /\ UNCHANGED <<wfVars, listening, uncaught, killAll>>

\* the child exits by itself with a code, and the close handler runs
ProcExit(h) ==
  /\ ~uncaught /\ procs[h].state = "live"
  /\ \E code \in {0, 1} : procs' = [procs EXCEPT ![h] = OnClose(@, code, FALSE)]
  /\ activeProcesses' = activeProcesses \ {h}
  /\ UNCHANGED <<wfVars, listening, uncaught, killAll>>

\* the child dies of a delivered signal, and the close handler runs (code null)
ProcSignalled(h) ==
  /\ ~uncaught /\ procs[h].state = "live"
  /\ procs[h].sigkill \/ (procs[h].sigterm /\ ~procs[h].ignoresTerm)
  /\ procs' = [procs EXCEPT ![h] = OnClose(@, 0, TRUE)]
  /\ activeProcesses' = activeProcesses \ {h}
  /\ UNCHANGED <<wfVars, listening, uncaught, killAll>>

\* the spawn fails (binary not found, permission denied): the error handler runs
ProcSpawnError(h) ==
  /\ ~uncaught /\ procs[h].state = "live" /\ procs[h].chunks = 0 /\ ~procs[h].killed
  /\ procs' = [procs EXCEPT ![h] = OnError(@, listening)]
  /\ activeProcesses' = activeProcesses \ {h}
  /\ uncaught' = (uncaught \/ ~listening)
  /\ UNCHANGED <<wfVars, listening, killAll>>

\* the timeout timer of a process expires
TimeoutFires(h) ==
  /\ ~uncaught /\ procs[h].timer = "armed"
  /\ procs' = [procs EXCEPT ![h] = OnTimeout(@)]
  /\ UNCHANGED <<wfVars, activeProcesses, listening, uncaught, killAll>>

\* the 5 s timer set by the timeout callback expires
GraceFires(h) ==
  /\ ~uncaught /\ procs[h].grace = "armed"
  /\ procs' = [procs EXCEPT ![h] = [ForceKill(@) EXCEPT !.grace = "done"]]
  /\ UNCHANGED <<wfVars, activeProcesses, listening, uncaught, killAll>>

\* killProcess(processId): false for a handle that is not in activeProcesses;
\* else SIGTERM, the 5 s timer, activeProcesses.delete, true
KillProcess(h) ==
  /\ ~uncaught /\ procs[h].killRet = "none"
  /\ IF h \in activeProcesses
     THEN /\ procs' = [procs EXCEPT ![h] = [Kill(@, "SIGTERM") EXCEPT !.killGrace = "armed",
                                                                     !.killRet = "true"]]
          /\ activeProcesses' = activeProcesses \ {h}
     ELSE /\ procs' = [procs EXCEPT ![h].killRet = "false"]
          /\ activeProcesses' = activeProcesses
  /\ UNCHANGED <<wfVars, listening, uncaught, killAll>>

\* the 5 s timer set by killProcess expires: if (!process.killed) kill('SIGKILL')
KillGraceFires(h) ==
  /\ ~uncaught /\ procs[h].killGrace = "armed"
  /\ procs' = [procs EXCEPT ![h] = [ForceKill(@) EXCEPT !.killGrace = "done"]]
  /\ UNCHANGED <<wfVars, activeProcesses, listening, uncaught, killAll>>

(* -------------------------- DeploymentWorkflow ------------------------- *)
TaskId == "task_1"     \* generateTaskId of the workflow
DbRowId == "row_1"     \* generateId of DatabaseService.createTask
MaxAttempts == 30      \* pollDeploymentStatus: maxAttempts
NoProgress == 0 - 1    \* progress: undefined

Terminal == {"success", "failed", "cancelled"}
PhaseOrder == <<"detecting", "installing", "building", "deploying">>

\* a record-store call succeeds or fails (the query is rejected by the database
\* file at hand); it fails while the database is not open
DbOutcomes == IF initialized THEN {TRUE, FALSE} ELSE {FALSE}
DbErrorText == <<W("Database not initialized")>>
TypeErrorText == <<W("Cannot read properties of undefined")>>
Error(kind, message) == [kind |-> kind, message |-> message]
NoError == Error("", <<>>)

\* an exception reaches the catch block of executeDeployment
Throw(e) == pc' = "catch" /\ err' = e

\* database.updateTask(id, updates): UPDATE tasks SET ... WHERE id = ?
updateTask(rows, id, status, progress) ==
  [r \in DOMAIN rows |->
     IF r = id
     THEN [rows[r] EXCEPT !.status = status,
                          !.progress = IF progress = NoProgress THEN @ ELSE progress]
     ELSE rows[r]]

\* database.updateTask(id, { result }): UPDATE tasks SET result = ? WHERE id = ?
updateTaskResult(rows, id, result) ==
  [r \in DOMAIN rows |-> IF r = id THEN [rows[r] EXCEPT !.result = result] ELSE rows[r]]

\* database.updateTask(id, { logs }): UPDATE tasks SET logs = ? WHERE id = ?
updateTaskLogs(rows, id, logs) ==
  [r \in DOMAIN rows |-> IF r = id THEN [rows[r] EXCEPT !.logs = logs] ELSE rows[r]]

\* updateTaskStatus writing progress 0 when it is given none
WriteStatusClearsProgress(status, progress, next, onFail) ==
  \E ok \in DbOutcomes :
    IF ok
    THEN /\ lastUpdate' = [status |-> status,
                           progress |-> IF progress = NoProgress THEN 0 ELSE progress]
         /\ dbTasks' = updateTask(dbTasks, TaskId, status, progress)
         /\ next
    ELSE /\ UNCHANGED <<lastUpdate, dbTasks>>
         /\ onFail

\* updateTaskStatus up to its await: the update is handed to the record store,
\* which fails (the exception goes to onFail) or takes it (the caller resumes at next)
WriteStatus(status, progress, next, onFail) ==
  \E ok \in DbOutcomes :
    IF ok
    THEN /\ lastUpdate' = [status |-> status,
                           progress |-> IF progress = NoProgress THEN lastUpdate.progress
                                        ELSE progress]
         /\ dbTasks' = updateTask(dbTasks, TaskId, status, progress)
         /\ next
    ELSE /\ UNCHANGED <<lastUpdate, dbTasks>>
         /\ onFail

IssueStatus(status, progress, nextPc) ==
  WriteStatus(status, progress, pc' = nextPc /\ err' = err, Throw(Error("db", DbErrorText)))

\* updateTaskStatus after its await: Object.assign on the task still in activeTasks
Assigned(status, progress, phase, message) ==
  IF TaskId \in activeTasks
  THEN [status |-> status,
        progress |-> IF progress = NoProgress THEN task.progress ELSE progress,
        phase |-> IF phase = "" THEN task.phase ELSE phase,
        error |-> IF message = <<>> THEN task.error ELSE message,
        logs |-> task.logs, result |-> task.result]
  ELSE task

Emit(kinds) == [k \in DOMAIN events |-> events[k] + Cardinality({i \in DOMAIN kinds : kinds[i] = k})]
\* task:recovery is emitted once per failed build, so its count saturates with them
EmitRecovery(ev) == [ev EXCEPT !.recovery = Min(@ + 1, MaxBuilds + 1)]

\* commandRunner.execute(...) of the workflow: no timeout option
RunCommand(command, nextPc) ==
  /\ FreeHandles # {}
  /\ \E ignores \in BOOLEAN :
       procs' = [procs EXCEPT ![NewHandle] =
                   [Spawned("execute", "run", ignores, FALSE) EXCEPT !.command = command]]
  /\ activeProcesses' = activeProcesses \cup {NewHandle}
  /\ awaiting' = NewHandle
  /\ pc' = nextPc

Settled == awaiting # 0 /\ procs[awaiting].promise \in {"resolved", "rejected"}
\* the awaited promise was taken: the process record is dropped
Release ==
  /\ procs' = [procs EXCEPT ![awaiting] = FreeProc]
  /\ awaiting' = 0

\* database.getProject: the project, null, or a failing query
ProjectOutcomes == IF initialized THEN {"ok", "missing", "throws"} ELSE {"throws"}
ProjectError(o) ==
  IF o = "missing" THEN Error("not_found", <<W("Project not found")>>)
  ELSE Error("db", DbErrorText)

\* where the run is suspended inside executePhase's updateTaskStatus
PhasePc(phase) ==
  CASE phase = "detecting" -> "phase_detecting"
    [] phase = "installing" -> "phase_installing"
    [] phase = "building" -> "phase_building"
    [] OTHER -> "phase_deploying"

\* the projects of the record store and what the platform's plugin detects in
\* each: plugin.detectProject(project.path)
ProjectIds == {"web", "shop", "docs"}
NoConfig == [packageManager |-> "", buildCommand |-> <<>>]
DetectedConfig(projectId) ==
  CASE projectId = "web" -> [packageManager |-> "npm", buildCommand |-> <<"npm", "run", "build">>]
    [] projectId = "shop" -> [packageManager |-> "yarn", buildCommand |-> <<"yarn", "build">>]
    [] OTHER -> [packageManager |-> "pnpm", buildCommand |-> <<"pnpm", "run", "build">>]

\* DeploymentOptions: buildCommand is optional (<<>>: not given)
DefaultOptions == [projectId |-> "web", buildCommand |-> <<>>]
DeploymentOptions ==
  [projectId : ProjectIds, buildCommand : {<<>>, <<"make", "dist">>}]

\* what detectProject hands to database.updateTask as the logs column
DetectedLogs(opts) ==
  LET projectConfig == DetectedConfig(opts.projectId) IN
    <<[projectConfig |-> projectConfig,
       buildCommand |-> IF opts.buildCommand # <<>> THEN opts.buildCommand
                        ELSE projectConfig.buildCommand]>>

\* JSON.parse(task.logs || '{}'): the empty text gives an object without fields
Metadata(logs) ==
  IF logs = <<>> THEN [projectConfig |-> NoConfig, buildCommand |-> <<>>] ELSE logs[1]

\* installDependencies: the install command, split at the blanks
InstallCommand(metadata) ==
  CASE metadata.projectConfig.packageManager = "npm" -> <<"npm", "install">>
    [] metadata.projectConfig.packageManager = "yarn" -> <<"yarn", "install">>
    [] metadata.projectConfig.packageManager = "pnpm" -> <<"pnpm", "install">>
    [] OTHER -> <<"npm", "install">>

\* buildProject: options.buildCommand || metadata.buildCommand || 'npm run build'
BuildCommand(opts, metadata) ==
  IF opts.buildCommand # <<>> THEN opts.buildCommand
  ELSE IF metadata.buildCommand # <<>> THEN metadata.buildCommand
  ELSE <<"npm", "run", "build">>

\* executeRecoveryAction: the command of a remedial action
RecoveryCommand(action) ==
  CASE action.action = "install_dependency" ->
         <<"npm", "install">> \o [i \in 1..Len(action.pkg) |-> action.pkg[i].s]
    [] action.action = "clear_cache" -> <<"npm", "run", "clean">>
    [] OTHER -> <<"rm", "-rf", "node_modules", "dist", "build">>

\* executeDeployment is called: the task id is made and createTask awaited
ExecuteDeployment(opts) ==
  /\ ~uncaught /\ pc = "idle"
  /\ options' = opts
  /\ \E ok \in DbOutcomes :
       IF ok
       THEN /\ dbTasks' = (DbRowId :> [status |-> "pending", progress |-> 0, logs |-> <<>>, result |-> <<>>])
            /\ pc' = "created" /\ err' = err
       ELSE /\ dbTasks' = dbTasks
            /\ Throw(Error("db", DbErrorText))
  /\ UNCHANGED <<deployment, faulty, invoked, recoveryRules, engineCall, detectCall, polled, initialized, outcome, attempts, awaiting, buildRuns, applied, activeTasks, task,
                 lastUpdate, phaseLog, events, cancelPc, cancelCalls, cancelRet, runnerVars>>

\* a deployment of the project "web" with no option beside project and platform
StartDeployment == ExecuteDeployment(DefaultOptions)
\* a deployment of another project, or with a build command of the caller
StartDeploymentWith == \E opts \in DeploymentOptions \ {DefaultOptions} : ExecuteDeployment(opts)

\* after createTask: activeTasks.set, task:created, executePhase('detecting')
AfterCreate ==
  /\ ~uncaught /\ pc = "created"
  /\ activeTasks' = activeTasks \cup {TaskId}
  /\ task' = [status |-> "pending", progress |-> 0, phase |-> "", error |-> <<>>, logs |-> <<>>, result |-> <<>>]
  /\ events' = Emit(<<"created">>)
  /\ IssueStatus("running", NoProgress, PhasePc("detecting"))
  /\ UNCHANGED <<deployment, faulty, options, invoked, recoveryRules, engineCall, detectCall, polled, initialized, outcome, attempts, awaiting, buildRuns, applied, phaseLog,
                 cancelPc, cancelCalls, cancelRet, runnerVars>>

\* emit calls the listeners of the event one after the other in the emitting
\* call: a listener of task:phase returns, or throws into executePhase
ListenerOutcomes == IF faulty THEN {FALSE, TRUE} ELSE {FALSE}
ListenerError == Error("listener", <<W("Listener failed")>>)

\* executePhase after its updateTaskStatus: task:status, task:phase, then the
\* phase function up to its first await (getProject); an exception of a
\* listener is rethrown by executePhase's catch
EnterPhase(phase, nextPc) ==
  /\ ~uncaught /\ pc = PhasePc(phase)
  /\ task' = Assigned("running", NoProgress, phase, <<>>)
  /\ events' = Emit(<<"status", "phase">>)
  /\ phaseLog' = Append(phaseLog, phase)
  /\ \E thrown \in ListenerOutcomes :
       IF thrown THEN Throw(ListenerError) ELSE pc' = nextPc /\ err' = err
  /\ UNCHANGED <<deployment, faulty, options, invoked, recoveryRules, engineCall, detectCall, polled, initialized, outcome, attempts, awaiting, buildRuns, applied, activeTasks,
                 lastUpdate, dbTasks, cancelPc, cancelCalls, cancelRet, runnerVars>>

EnterDetecting == EnterPhase("detecting", "detect_wait")
EnterInstalling == EnterPhase("installing", "install_wait")
EnterBuilding == EnterPhase("building", "build_wait")
EnterDeploying == EnterPhase("deploying", "deploy_wait")

\* detectProject: getProject, getPlugin, plugin.detectProject, updateTaskStatus(10)
DetectProject ==
  /\ ~uncaught /\ pc = "detect_wait"
  /\ \E o \in ProjectOutcomes \cup {"no_plugin", "no_config"} :
       CASE o = "ok" -> IssueStatus("running", 10, "detect_status")
         [] o = "no_plugin" ->
              /\ Throw(Error("not_found", <<W("Plugin not found for platform:")>>))
              /\ UNCHANGED <<lastUpdate, dbTasks>>
         [] o = "no_config" ->
              /\ Throw(Error("not_found", <<W("Failed to detect project configuration")>>))
              /\ UNCHANGED <<lastUpdate, dbTasks>>
         [] OTHER -> Throw(ProjectError(o)) /\ UNCHANGED <<lastUpdate, dbTasks>>
  /\ UNCHANGED <<deployment, faulty, options, invoked, recoveryRules, engineCall, detectCall, polled, initialized, outcome, attempts, awaiting, buildRuns, applied, activeTasks, task,
                 phaseLog, events, cancelPc, cancelCalls, cancelRet, runnerVars>>

\* detectProject after updateTaskStatus(10): task:status, task:log, and the
\* configuration written to the record store's logs column
DetectStored ==
  /\ ~uncaught /\ pc = "detect_status"
  /\ task' = Assigned("running", 10, "", <<>>)
  /\ events' = Emit(<<"status">>)
  /\ \E ok \in DbOutcomes :
       IF ok
       THEN /\ dbTasks' = updateTaskLogs(dbTasks, TaskId, DetectedLogs(options))
            /\ pc' = "detect_logs" /\ err' = err
       ELSE /\ dbTasks' = dbTasks
            /\ Throw(Error("db", DbErrorText))
  /\ UNCHANGED <<deployment, faulty, options, invoked, recoveryRules, engineCall, detectCall, polled, initialized, outcome, attempts, awaiting, buildRuns, applied, activeTasks,
                 lastUpdate, phaseLog, cancelPc, cancelCalls, cancelRet, runnerVars>>

\* a phase function returned: executePhase of the next phase calls updateTaskStatus
NextPhase(fromPc, phase) ==
  /\ ~uncaught /\ pc = fromPc
  /\ IssueStatus("running", NoProgress, PhasePc(phase))
  /\ UNCHANGED <<deployment, faulty, options, invoked, recoveryRules, engineCall, detectCall, polled, initialized, outcome, attempts, awaiting, buildRuns, applied, activeTasks, task,
                 phaseLog, events, cancelPc, cancelCalls, cancelRet, runnerVars>>

DetectDone == NextPhase("detect_logs", "installing")

\* what follows getProject in installDependencies, buildProject and
\* deployProject: this.activeTasks.get(taskId)!, whose logs are read
TaskError(o) ==
  IF o # "ok" THEN ProjectError(o) ELSE Error("type", TypeErrorText)

\* installDependencies after getProject: the install command is spawned
InstallSpawn ==
  /\ ~uncaught /\ pc = "install_wait"
  /\ \E o \in ProjectOutcomes :
       IF o = "ok" /\ TaskId \in activeTasks
       THEN RunCommand(InstallCommand(Metadata(task.logs)), "install_run") /\ err' = err
       ELSE Throw(TaskError(o)) /\ UNCHANGED <<procs, activeProcesses, awaiting>>
  /\ UNCHANGED <<deployment, faulty, options, invoked, recoveryRules, engineCall, detectCall, polled, initialized, outcome, attempts, buildRuns, applied, activeTasks, task, lastUpdate,
                 dbTasks, phaseLog, events, cancelPc, cancelCalls, cancelRet, listening, uncaught, killAll>>

\* installDependencies after execute: failure throws, success writes progress 30
InstallDone ==
  /\ ~uncaught /\ pc = "install_run" /\ Settled
  /\ LET p == procs[awaiting] IN
       IF p.promise = "rejected"
       THEN Throw(Error("spawn", SpawnErrorText)) /\ UNCHANGED <<lastUpdate, dbTasks>>
       ELSE IF ~p.result.success
       THEN /\ Throw(Error("install", <<W("Dependency installation failed:")>> \o p.result.stderr))
            /\ UNCHANGED <<lastUpdate, dbTasks>>
       ELSE IssueStatus("running", 30, "install_status")
  /\ Release
  /\ UNCHANGED <<deployment, faulty, options, invoked, recoveryRules, engineCall, detectCall, polled, initialized, outcome, attempts, buildRuns, applied, activeTasks, task, phaseLog,
                 events, cancelPc, cancelCalls, cancelRet, activeProcesses, listening, uncaught, killAll>>

\* a phase function after its last updateTaskStatus: task:status, task:log, and
\* executePhase of the next phase calls updateTaskStatus
PhaseDone(fromPc, progress, phase) ==
  /\ ~uncaught /\ pc = fromPc
  /\ task' = Assigned("running", progress, "", <<>>)
  /\ events' = Emit(<<"status">>)
  /\ IssueStatus("running", NoProgress, PhasePc(phase))
  /\ UNCHANGED <<deployment, faulty, options, invoked, recoveryRules, engineCall, detectCall, polled, initialized, outcome, attempts, awaiting, buildRuns, applied, activeTasks,
                 phaseLog, cancelPc, cancelCalls, cancelRet, runnerVars>>

InstallStored == PhaseDone("install_status", 30, "building")
BuildStored == PhaseDone("build_status", 60, "deploying")

\* buildProject after getProject: the build command is spawned
BuildSpawn ==
  /\ ~uncaught /\ pc = "build_wait"
  /\ \E o \in ProjectOutcomes :
       IF o = "ok" /\ TaskId \in activeTasks
       THEN /\ RunCommand(BuildCommand(options, Metadata(task.logs)), "build_run") /\ err' = err
            /\ buildRuns' = Min(buildRuns + 1, MaxBuilds)
       ELSE /\ Throw(TaskError(o))
            /\ UNCHANGED <<procs, activeProcesses, awaiting, buildRuns>>
  /\ UNCHANGED <<deployment, faulty, options, invoked, recoveryRules, engineCall, detectCall, polled, initialized, outcome, attempts, applied, activeTasks, task, lastUpdate,
                 dbTasks, phaseLog, events, cancelPc, cancelCalls, cancelRet, listening, uncaught, killAll>>

AdvisoryThreshold == 7000    \* recoveryAction.confidence > 0.7
AutoApplyThreshold == 9000   \* recoveryAction.confidence > 0.9

detectError(stderr, stdout) == detectErrorIn(initialized, SetupErrorPatterns, stderr, stdout)
getRecoveryAction(sig) == getRecoveryActionIn(initialized, recoveryRules, sig)

\* getRecoveryAction is asked only when detectError found a signature
RecoveryFor(sig) == IF sig.found THEN getRecoveryAction(sig) ELSE NoAction

\* buildProject with the recovery applied from the advisory threshold on
BuildVerdictFromAdvisory(found, action) ==
  IF found /\ action.action # "none" /\ action.confidence > AdvisoryThreshold
  THEN "retry"
  ELSE "fail"

\* buildProject emitting task:recovery for every action, whatever its confidence
BuildVerdictNoAdvisory(found, action) ==
  IF found /\ action.action # "none"
  THEN (IF action.confidence > AutoApplyThreshold THEN "retry" ELSE "suggest")
  ELSE "fail"

\* the two thresholds of buildProject
BuildVerdict(found, action) ==
  IF found /\ action.action # "none" /\ action.confidence > AdvisoryThreshold
  THEN (IF action.confidence > AutoApplyThreshold THEN "retry" ELSE "suggest")
  ELSE "fail"

DecisionOf(found, action) ==
  [found |-> found, action |-> action, verdict |-> BuildVerdict(found, action)]

DecisionFor(sig) == With(RecoveryFor(sig), LAMBDA action : DecisionOf(sig.found, action))

\* what buildProject does with a failed build: "retry" (executeRecoveryAction,
\* then buildProject again), "suggest" (task:recovery, then throw) or "fail"
BuildDecision(result) == With(detectError(result.stderr, result.stdout), DecisionFor)

BuildFailed(result) == Error("build", <<W("Build failed:")>> \o result.stderr)

\* the run called detectError, and getRecoveryAction when a signature was found
MaxInvoked == MaxBuilds + 1
Invoke(found) ==
  [invoked EXCEPT !.detect = Min(@ + 1, MaxInvoked),
                  !.suggest = IF found THEN Min(@ + 1, MaxInvoked) ELSE @]

\* buildProject when the build command failed, d being BuildDecision of its result
BuildRecover(result, d) ==
  /\ invoked' = Invoke(d.found)
  /\ events' = IF d.verdict = "fail" THEN events ELSE EmitRecovery(events)
  /\ UNCHANGED <<lastUpdate, dbTasks>>
  /\ IF d.verdict = "retry"
     THEN \* executeRecoveryAction: this.activeTasks.get(taskId)!.projectId
          IF TaskId \in activeTasks
          THEN pc' = "recover_wait" /\ applied' = d.action /\ err' = err
          ELSE Throw(Error("type", TypeErrorText)) /\ applied' = applied
     ELSE Throw(BuildFailed(result)) /\ applied' = applied

\* buildProject classifying the output of every build, failed or not
BuildResultClassifiesAll(p) ==
  IF p.promise = "rejected"
  THEN /\ Throw(Error("spawn", SpawnErrorText))
       /\ UNCHANGED <<lastUpdate, dbTasks, events, applied, invoked>>
  ELSE IF p.result.success
  THEN /\ IssueStatus("running", 60, "build_status")
       /\ invoked' = Invoke(detectError(p.result.stderr, p.result.stdout).found)
       /\ UNCHANGED <<events, applied>>
  ELSE \E d \in {BuildDecision(p.result)} : BuildRecover(p.result, d)

BuildResult(p) ==
  IF p.promise = "rejected"
  THEN /\ Throw(Error("spawn", SpawnErrorText))
       /\ UNCHANGED <<lastUpdate, dbTasks, events, applied, invoked>>
  ELSE IF p.result.success
  THEN IssueStatus("running", 60, "build_status") /\ UNCHANGED <<events, applied, invoked>>
  ELSE \E d \in {BuildDecision(p.result)} : BuildRecover(p.result, d)

\* buildProject after execute
BuildDone ==
  /\ ~uncaught /\ pc = "build_run" /\ Settled
  /\ BuildResult(procs[awaiting])
  /\ Release
  /\ UNCHANGED <<deployment, faulty, options, recoveryRules, engineCall, detectCall, polled, initialized, outcome, attempts, buildRuns, activeTasks, task, phaseLog,
                 cancelPc, cancelCalls, cancelRet, activeProcesses, listening, uncaught, killAll>>

\* the actions for which executeRecoveryAction runs a command
RemedialCommands == {"install_dependency", "clear_cache", "retry_with_clean"}

\* executeRecoveryAction with the remedial command started and not awaited
RecoverySpawnNoAwait ==
  /\ ~uncaught /\ pc = "recover_wait"
  /\ \E o \in ProjectOutcomes :
       IF o # "ok"
       THEN Throw(ProjectError(o)) /\ UNCHANGED <<procs, activeProcesses, awaiting>>
       ELSE IF applied.action \in RemedialCommands
       THEN RunCommand(RecoveryCommand(applied), "build_wait") /\ err' = err
       ELSE pc' = "build_wait" /\ err' = err /\ UNCHANGED <<procs, activeProcesses, awaiting>>
  /\ UNCHANGED <<deployment, faulty, options, invoked, recoveryRules, engineCall, detectCall, polled, initialized, outcome, attempts, buildRuns, applied, activeTasks, task, lastUpdate,
                 dbTasks, phaseLog, events, cancelPc, cancelCalls, cancelRet, listening, uncaught, killAll>>

\* executeRecoveryAction after getProject: the switch on action.action; the
\* default branch logs a warning, returns, and buildProject is entered again
RecoverySpawn ==
  /\ ~uncaught /\ pc = "recover_wait"
  /\ \E o \in ProjectOutcomes :
       IF o # "ok"
       THEN Throw(ProjectError(o)) /\ UNCHANGED <<procs, activeProcesses, awaiting>>
       ELSE IF applied.action \in RemedialCommands
       THEN RunCommand(RecoveryCommand(applied), "recover_run") /\ err' = err
       ELSE pc' = "build_wait" /\ err' = err /\ UNCHANGED <<procs, activeProcesses, awaiting>>
  /\ UNCHANGED <<deployment, faulty, options, invoked, recoveryRules, engineCall, detectCall, polled, initialized, outcome, attempts, buildRuns, applied, activeTasks, task, lastUpdate,
                 dbTasks, phaseLog, events, cancelPc, cancelCalls, cancelRet, listening, uncaught, killAll>>

\* executeRecoveryAction followed by a restart of the installing phase
RecoveryDoneRestarts ==
  /\ ~uncaught /\ pc = "recover_run" /\ Settled
  /\ IF procs[awaiting].promise = "rejected"
     THEN Throw(Error("spawn", SpawnErrorText))
     ELSE pc' = "phase_installing" /\ err' = err
  /\ Release
  /\ UNCHANGED <<deployment, faulty, options, invoked, recoveryRules, engineCall, detectCall, polled, initialized, outcome, attempts, buildRuns, applied, activeTasks, task, lastUpdate,
                 dbTasks, phaseLog, events, cancelPc, cancelCalls, cancelRet, activeProcesses,
                 listening, uncaught, killAll>>

\* executeRecoveryAction after execute: the result is not looked at
RecoveryDone ==
  /\ ~uncaught /\ pc = "recover_run" /\ Settled
  /\ IF procs[awaiting].promise = "rejected"
     THEN Throw(Error("spawn", SpawnErrorText))
     ELSE pc' = "build_wait" /\ err' = err
  /\ Release
  /\ UNCHANGED <<deployment, faulty, options, invoked, recoveryRules, engineCall, detectCall, polled, initialized, outcome, attempts, buildRuns, applied, activeTasks, task, lastUpdate,
                 dbTasks, phaseLog, events, cancelPc, cancelCalls, cancelRet, activeProcesses,
                 listening, uncaught, killAll>>

\* deployProject after getProject: the task's metadata is read, then
\* plugin.authenticate() is awaited
DeployAuth ==
  /\ ~uncaught /\ pc = "deploy_wait"
  /\ \E o \in ProjectOutcomes :
       IF o = "ok" /\ TaskId \in activeTasks
       THEN pc' = "auth_wait" /\ err' = err
       ELSE Throw(TaskError(o))
  /\ UNCHANGED <<deployment, faulty, options, invoked, recoveryRules, engineCall, detectCall, polled, initialized, outcome, attempts, awaiting, buildRuns, applied, activeTasks, task,
                 lastUpdate, dbTasks, phaseLog, events, cancelPc, cancelCalls, cancelRet,
                 runnerVars>>

\* deployProject after authenticate: failure throws, success calls plugin.deploy
DeployCall ==
  /\ ~uncaught /\ pc = "auth_wait"
  /\ \E ok \in BOOLEAN :
       IF ok THEN pc' = "deploy_call" /\ err' = err
       ELSE Throw(Error("adapter", <<W("Authentication failed"), W(":")>>))
  /\ UNCHANGED <<deployment, faulty, options, invoked, recoveryRules, engineCall, detectCall, polled, initialized, outcome, attempts, awaiting, buildRuns, applied, activeTasks, task,
                 lastUpdate, dbTasks, phaseLog, events, cancelPc, cancelCalls, cancelRet,
                 runnerVars>>

\* what the adapter reports: deployResult.deployId, status.url
AdapterDeployId == "dpl_1"
AdapterUrl == "https://web.example.app"
NoReturn == [deployId |-> "", url |-> ""]
NoDeployment == [deployId |-> "", url |-> "", returned |-> NoReturn]

\* JSON.stringify({ deployId, url: status.url, status: status.status })
StoredResult(deployId, url, status) == <<[deployId |-> deployId, url |-> url, status |-> status]>>

\* JSON.parse(finalTask.result || '{}'), of which deployId and url are returned
ParsedResult(result) ==
  IF result = <<>> THEN NoReturn ELSE [deployId |-> result[1].deployId, url |-> result[1].url]

\* deployProject after plugin.deploy: failure throws, success writes progress 80
DeployCreated ==
  /\ ~uncaught /\ pc = "deploy_call"
  /\ \E ok \in BOOLEAN :
       IF ok THEN /\ IssueStatus("running", 80, "deploy_status")
                  /\ deployment' = [deployment EXCEPT !.deployId = AdapterDeployId]
       ELSE /\ Throw(Error("adapter", <<W("Deployment failed:")>>))
            /\ UNCHANGED <<lastUpdate, dbTasks, deployment>>
  /\ UNCHANGED <<faulty, options, invoked, recoveryRules, engineCall, detectCall, polled, initialized, outcome, attempts, awaiting, buildRuns, applied, activeTasks, task,
                 phaseLog, events, cancelPc, cancelCalls, cancelRet, runnerVars>>

\* deployProject after updateTaskStatus(80): pollDeploymentStatus starts with
\* attempts = 0 and awaits the first getStatus
PollStart ==
  /\ ~uncaught /\ pc = "deploy_status"
  /\ task' = Assigned("running", 80, "", <<>>)
  /\ events' = Emit(<<"status">>)
  /\ attempts' = 0
  /\ pc' = "poll_wait"
  /\ UNCHANGED <<deployment, faulty, options, invoked, recoveryRules, engineCall, detectCall, polled, initialized, outcome, err, awaiting, buildRuns, applied, activeTasks,
                 lastUpdate, dbTasks, phaseLog, cancelPc, cancelCalls, cancelRet, runnerVars>>

DeployStatuses == {"pending", "building", "ready", "error", "live", "failed"}

\* pollDeploymentStatus after getStatus
PollStatus ==
  /\ ~uncaught /\ pc = "poll_wait"
  /\ \E st \in DeployStatuses \cup {"throws"} :
       /\ polled' = IF st = "throws" THEN polled ELSE st
       /\ CASE st \in {"ready", "live"} ->
                 \* the result is written to the record store's result column
                 /\ deployment' = [deployment EXCEPT !.url = AdapterUrl]
                 /\ \E ok \in DbOutcomes :
                      IF ok
                      THEN /\ dbTasks' = updateTaskResult(dbTasks, TaskId,
                                            StoredResult(deployment.deployId, AdapterUrl, st))
                           /\ pc' = "poll_result" /\ err' = err
                      ELSE /\ dbTasks' = dbTasks
                           /\ Throw(Error("db", DbErrorText))
            [] st \in {"error", "failed"} ->
                 /\ Throw(Error("adapter", <<W("Deployment failed:")>>))
                 /\ UNCHANGED <<dbTasks, deployment>>
            [] st = "throws" ->
                 /\ Throw(Error("adapter", <<W("getStatus failed")>>))
                 /\ UNCHANGED <<dbTasks, deployment>>
            [] OTHER -> pc' = "poll_sleep" /\ err' = err /\ UNCHANGED <<dbTasks, deployment>>
  /\ UNCHANGED <<faulty, options, invoked, recoveryRules, engineCall, detectCall, initialized, outcome, attempts, awaiting, buildRuns, applied,
                 activeTasks, task,
                 lastUpdate, phaseLog, events, cancelPc, cancelCalls, cancelRet,
                 runnerVars>>

\* the poll loop with the condition attempts <= maxAttempts
PollTickOneMore ==
  /\ ~uncaught /\ pc = "poll_sleep"
  /\ attempts' = attempts + 1
  /\ IF attempts + 1 <= MaxAttempts
     THEN pc' = "poll_wait" /\ err' = err
     ELSE Throw(Error("timeout", <<W("Deployment timeout - status check exceeded maximum attempts")>>))
  /\ UNCHANGED <<deployment, faulty, options, invoked, recoveryRules, engineCall, detectCall, polled, initialized, outcome, awaiting, buildRuns, applied, activeTasks, task,
                 lastUpdate, dbTasks, phaseLog, events, cancelPc, cancelCalls, cancelRet,
                 runnerVars>>

\* the 10 s timer of the poll loop expires: attempts++, and the loop condition
PollTick ==
  /\ ~uncaught /\ pc = "poll_sleep"
  /\ attempts' = attempts + 1
  /\ IF attempts + 1 < MaxAttempts
     THEN pc' = "poll_wait" /\ err' = err
     ELSE Throw(Error("timeout", <<W("Deployment timeout - status check exceeded maximum attempts")>>))
  /\ UNCHANGED <<deployment, faulty, options, invoked, recoveryRules, engineCall, detectCall, polled, initialized, outcome, awaiting, buildRuns, applied, activeTasks, task,
                 lastUpdate, dbTasks, phaseLog, events, cancelPc, cancelCalls, cancelRet,
                 runnerVars>>

\* the deploying phase returned: updateTaskStatus(taskId, 'success', 100)
MarkSuccess ==
  /\ ~uncaught /\ pc = "poll_result"
  /\ IssueStatus("success", 100, "success_status")
  /\ UNCHANGED <<deployment, faulty, options, invoked, recoveryRules, engineCall, detectCall, polled, initialized, outcome, attempts, awaiting, buildRuns, applied, activeTasks, task,
                 phaseLog, events, cancelPc, cancelCalls, cancelRet, runnerVars>>

\* executeDeployment after updateTaskStatus(success): finalTask is read from
\* activeTasks, task:completed is emitted, and finally removes the task
Complete ==
  /\ ~uncaught /\ pc = "success_status"
  /\ task' = Assigned("success", 100, "", <<>>)
  /\ IF TaskId \in activeTasks
     THEN /\ events' = Emit(<<"status", "completed">>)
          /\ deployment' = [deployment EXCEPT !.returned = ParsedResult(task.result)]
          /\ outcome' = "success" /\ pc' = "done" /\ err' = err
          /\ activeTasks' = activeTasks \ {TaskId}
     ELSE /\ events' = Emit(<<"status">>)
          /\ Throw(Error("type", TypeErrorText))
          /\ UNCHANGED <<outcome, activeTasks, deployment>>
  /\ UNCHANGED <<faulty, options, invoked, recoveryRules, engineCall, detectCall, polled, initialized, attempts, awaiting, buildRuns, applied, lastUpdate, dbTasks,
                 phaseLog, cancelPc, cancelCalls, cancelRet, runnerVars>>

\* the catch block: updateTaskStatus(taskId, 'failed', undefined, message); when
\* the record store fails here the exception leaves executeDeployment
Catch ==
  /\ ~uncaught /\ pc = "catch"
  /\ WriteStatus("failed", NoProgress,
                 pc' = "failed_status" /\ UNCHANGED <<outcome, activeTasks>>,
                 pc' = "done" /\ outcome' = "threw" /\ activeTasks' = activeTasks \ {TaskId})
  /\ UNCHANGED <<deployment, faulty, options, invoked, recoveryRules, engineCall, detectCall, polled, initialized, err, attempts, awaiting, buildRuns, applied, task, phaseLog,
                 events, cancelPc, cancelCalls, cancelRet, runnerVars>>

\* attemptRecovery: a suggestion is emitted when its confidence is at least 0.5
SuggestionThreshold == 5000
Suggests(found, action) ==
  found /\ action.action # "none" /\ action.confidence >= SuggestionThreshold

SuggestsFor(sig) == With(RecoveryFor(sig), LAMBDA action : Suggests(sig.found, action))

\* whether detectError found a signature, and whether task:recovery is emitted
AnalysisOf(sig) == [found |-> sig.found, suggests |-> SuggestsFor(sig)]

attemptRecovery(e) == With(detectError(e.message, <<>>), AnalysisOf)

\* the catch block without the call of attemptRecovery
FailedSkipsAnalysis ==
  /\ ~uncaught /\ pc = "failed_status"
  /\ task' = Assigned("failed", NoProgress, "", err.message)
  /\ invoked' = invoked
  /\ events' = Emit(<<"status", "failed">>)
  /\ outcome' = "failure"
  /\ activeTasks' = activeTasks \ {TaskId}
  /\ pc' = "done"
  /\ UNCHANGED <<deployment, faulty, options, recoveryRules, engineCall, detectCall, polled, initialized, err, attempts, awaiting, buildRuns, applied, lastUpdate, dbTasks,
                 phaseLog, cancelPc, cancelCalls, cancelRet, runnerVars>>

\* the catch block after updateTaskStatus: task:status, task:failed,
\* attemptRecovery, the failure result, and finally removes the task.  Inside
\* attemptRecovery an exception (of a subscriber of task:recovery, which is
\* emitted inside its try block) is caught and logged
Failed ==
  /\ ~uncaught /\ pc = "failed_status"
  /\ task' = Assigned("failed", NoProgress, "", err.message)
  /\ \E analysis \in {attemptRecovery(err)} :
       /\ \E thrown \in (IF analysis.suggests THEN BOOLEAN ELSE {FALSE}) :
            invoked' = [Invoke(analysis.found) EXCEPT !.caught = thrown]
       /\ events' = IF analysis.suggests THEN EmitRecovery(Emit(<<"status", "failed">>))
                    ELSE Emit(<<"status", "failed">>)
  /\ outcome' = "failure"
  /\ activeTasks' = activeTasks \ {TaskId}
  /\ pc' = "done"
  /\ UNCHANGED <<deployment, faulty, options, recoveryRules, engineCall, detectCall, polled, initialized, err, attempts, awaiting, buildRuns, applied, lastUpdate, dbTasks,
                 phaseLog, cancelPc, cancelCalls, cancelRet, runnerVars>>

\* cancelTask is called: false when the task is not in activeTasks, else
\* updateTaskStatus(taskId, 'cancelled') is awaited
CancelCall ==
  /\ ~uncaught /\ cancelPc = "idle" /\ cancelCalls < MaxCancels
  /\ cancelCalls' = cancelCalls + 1
  /\ IF TaskId \notin activeTasks
     THEN cancelRet' = "false" /\ UNCHANGED <<cancelPc, lastUpdate, dbTasks>>
     ELSE WriteStatus("cancelled", NoProgress,
                      cancelPc' = "await" /\ cancelRet' = cancelRet,
                      cancelPc' = cancelPc /\ cancelRet' = "threw")
  /\ UNCHANGED <<deployment, faulty, options, invoked, recoveryRules, engineCall, detectCall, polled, initialized, pc, outcome, err, attempts, awaiting, buildRuns, applied,
                 activeTasks, task, phaseLog, events, runnerVars>>

\* cancelTask without activeTasks.delete
CancelDoneKeepsTask ==
  /\ ~uncaught /\ cancelPc = "await"
  /\ task' = Assigned("cancelled", NoProgress, "", <<>>)
  /\ events' = Emit(<<"status", "cancelled">>)
  /\ activeTasks' = activeTasks
  /\ cancelRet' = "true"
  /\ cancelPc' = "idle"
  /\ UNCHANGED <<deployment, faulty, options, invoked, recoveryRules, engineCall, detectCall, polled, initialized, pc, outcome, err, attempts, awaiting, buildRuns, applied,
                 lastUpdate, dbTasks, phaseLog, cancelCalls, runnerVars>>

\* cancelTask after updateTaskStatus: task:status, activeTasks.delete,
\* task:cancelled, return true
CancelDone ==
  /\ ~uncaught /\ cancelPc = "await"
  /\ task' = Assigned("cancelled", NoProgress, "", <<>>)
  /\ events' = Emit(<<"status", "cancelled">>)
  /\ activeTasks' = activeTasks \ {TaskId}
  /\ cancelRet' = "true"
  /\ cancelPc' = "idle"
  /\ UNCHANGED <<deployment, faulty, options, invoked, recoveryRules, engineCall, detectCall, polled, initialized, pc, outcome, err, attempts, awaiting, buildRuns, applied,
                 lastUpdate, dbTasks, phaseLog, cancelCalls, runnerVars>>

\* DeploymentWorkflow.initialize
Initialize ==
  /\ ~uncaught /\ ~initialized
  /\ initialized' = TRUE
  /\ recoveryRules' = recoveryRules \o SetupRecoveryRules
  /\ UNCHANGED <<deployment, faulty, options, invoked, engineCall, detectCall, polled, pc, outcome, err, attempts, awaiting, buildRuns, applied, activeTasks, task,
                 lastUpdate, dbTasks, phaseLog, events, cancelPc, cancelCalls, cancelRet,
                 runnerVars>>

\* no call of detectError yet; prev is the call before the last one
NoCall ==
  [called |-> FALSE, init |-> FALSE, stderr |-> <<>>, stdout |-> <<>>, sig |-> NoSignature,
   prev |-> <<>>]

\* no call of the engine yet
NoEngineCall ==
  [op |-> "none", init |-> FALSE, stderr |-> <<>>, sig |-> NoSignature, action |-> NoAction,
   ret |-> FALSE]

NoEvents ==
  [k \in {"created", "phase", "status", "completed", "failed", "cancelled", "recovery"} |-> 0]

\* the workflow as constructed: nothing subscribed to its CommandRunner
Init ==
  /\ initialized = FALSE
  /\ pc = "idle" /\ outcome = "none" /\ err = NoError
  /\ attempts = 0 /\ polled = "" /\ awaiting = 0 /\ buildRuns = 0 /\ applied = NoAction
  /\ activeTasks = {}
  /\ task = [status |-> "", progress |-> 0, phase |-> "", error |-> <<>>, logs |-> <<>>, result |-> <<>>]
  /\ options = DefaultOptions
  /\ faulty = FALSE
  /\ deployment = NoDeployment
  /\ lastUpdate = [status |-> "pending", progress |-> 0]
  /\ dbTasks = <<>>
  /\ phaseLog = <<>>
  /\ events = NoEvents
  /\ cancelPc = "idle" /\ cancelCalls = 0 /\ cancelRet = "none"
  /\ procs = [h \in Handles |-> FreeProc]
  /\ activeProcesses = {}
  /\ listening = FALSE
  /\ uncaught = FALSE
  /\ killAll = "none"
  /\ detectCall = [NoCall EXCEPT !.prev = NoCall]
  /\ recoveryRules = <<>>
  /\ invoked = [detect |-> 0, suggest |-> 0, caught |-> FALSE]
  /\ engineCall = NoEngineCall

RunStep ==
  \/ StartDeployment \/ AfterCreate
  \/ EnterDetecting \/ DetectProject \/ DetectStored \/ DetectDone
  \/ EnterInstalling \/ InstallSpawn \/ InstallDone \/ InstallStored
  \/ EnterBuilding \/ BuildSpawn \/ BuildDone \/ RecoverySpawn \/ RecoveryDone \/ BuildStored
  \/ EnterDeploying \/ DeployAuth \/ DeployCall \/ DeployCreated
  \/ PollStart \/ PollStatus \/ PollTick \/ MarkSuccess \/ Complete
  \/ Catch \/ Failed

ChildStep == \E h \in Handles : ProcData(h) \/ ProcExit(h) \/ ProcSpawnError(h)

\* an uncaught exception ends the host process: no action is enabled after it
Next == Initialize \/ RunStep \/ CancelCall \/ CancelDone \/ ChildStep

Spec == Init /\ [][Next]_vars

\* the event loop resumes a run whose awaited promise has settled, and every
\* spawned command eventually exits
FairSpec ==
  /\ Spec
  /\ WF_vars(RunStep)
  /\ \A h \in Handles : WF_vars(ProcExit(h))

(* ------------------- CommandRunner used on its own --------------------- *)
\* execute(command, args, cwd, options) called by a user of the runner,
\* with or without options.timeout
Execute ==
  /\ ~uncaught /\ FreeHandles # {}
  /\ \E ignores \in BOOLEAN, timeout \in BOOLEAN :
       procs' = [procs EXCEPT ![NewHandle] = Spawned("execute", "api", ignores, timeout)]
  /\ activeProcesses' = activeProcesses \cup {NewHandle}
  /\ UNCHANGED <<wfVars, listening, uncaught, killAll>>

\* executeWithStream(command, args, cwd, options, onOutput)
ExecuteWithStream ==
  /\ ~uncaught /\ FreeHandles # {}
  /\ \E ignores \in BOOLEAN, timeout \in BOOLEAN :
       procs' = [procs EXCEPT ![NewHandle] = Spawned("stream", "api", ignores, timeout)]
  /\ activeProcesses' = activeProcesses \cup {NewHandle}
  /\ UNCHANGED <<wfVars, listening, uncaught, killAll>>

\* the caller's await takes the settled promise, and no timer of the call is
\* still pending: the process record is dropped
Collect(h) ==
  /\ ~uncaught /\ procs[h].owner = "api"
  /\ procs[h].promise \in {"resolved", "rejected"}
  /\ procs[h].grace # "armed" /\ procs[h].killGrace # "armed"
  /\ procs' = [procs EXCEPT ![h] = FreeProc]
  /\ UNCHANGED <<wfVars, activeProcesses, listening, uncaught, killAll>>

\* runner.on('error', listener), inherited from EventEmitter
Subscribe ==
  /\ ~uncaught /\ ~listening
  /\ listening' = TRUE
  /\ UNCHANGED <<wfVars, procs, activeProcesses, uncaught, killAll>>

RunnerStep ==
  \E h \in Handles :
    \/ ProcData(h) \/ ProcExit(h) \/ ProcSignalled(h) \/ ProcSpawnError(h)
    \/ TimeoutFires(h) \/ GraceFires(h) \/ Collect(h)
    \/ KillProcess(h) \/ KillGraceFires(h)

NextRunner == Execute \/ ExecuteWithStream \/ Subscribe \/ RunnerStep

SpecRunner == Init /\ [][NextRunner]_vars

(* ------------------- ErrorDetector used on its own --------------------- *)
\* the outputs detectError is called with
DetectorStderrs ==
  LET envFile == <<W("ENOENT"), W(": no such file or directory"), W(", open"), Quote,
                   W(".env"), Quote>>
      authToken == <<W("Authentication failed"), W(":"), W("token"), W("expired")>>
      warning == <<W("npm WARN deprecated"), NL>>
      syntax == <<W("SyntaxError:"), W("Unexpected token"), W("at line")>>
      denied == <<W("EACCES: permission denied"), W(", open")>>
  IN StderrTexts \cup
       {<<>>, <<NL>>, <<NL>> \o PlainText, PlainText \o <<NL, W("make: stopped")>>,
        envFile, authToken, warning \o MissingModuleText,
        syntax \o <<N(42)>>, syntax \o <<N(7)>>, denied \o <<P("/home/ci/out")>>,
        <<W("make: *** [all]"), W("Error"), N(1)>>}

DetectorStdouts ==
  StdoutTexts \cup
    {<<>>, MissingModuleText, <<W("Build failed with errors")>>,
     <<W("compiled"), N(40), W("modules"), NL>>}

\* detectError on each of these outputs, for a detector before and after initialize
DetectorCalls ==
  {[called |-> TRUE, init |-> i, stderr |-> e, stdout |-> o,
    sig |-> detectErrorIn(i, SetupErrorPatterns, e, o), prev |-> <<>>] :
     i \in BOOLEAN, e \in DetectorStderrs, o \in DetectorStdouts}

\* detectError(stderr, stdout) called by a user of the detector, before or after
\* initialize
DetectError ==
  /\ ~uncaught
  /\ \E c \in DetectorCalls :
       /\ c.init = initialized
       /\ detectCall' = [c EXCEPT !.prev = [detectCall EXCEPT !.prev = <<>>]]
  /\ UNCHANGED <<deployment, faulty, options, invoked, recoveryRules, engineCall, polled, initialized, pc, outcome, err, attempts,
                 awaiting, buildRuns, applied, activeTasks, task, lastUpdate, dbTasks, phaseLog,
                 events, cancelPc, cancelCalls, cancelRet, runnerVars>>

NextDetector == Initialize \/ DetectError

SpecDetector == Init /\ [][NextDetector]_vars

(* ------------------- RecoveryEngine used on its own -------------------- *)
MaxAdded == 1      \* rules a caller adds through addRecoveryRule

\* rules a caller adds: one that comes first and answers every "Error", one for
\* the missing module with a faint confidence, one whose generator throws
CallerRules ==
  {RecoveryRule("caller_sure", << <<Lit("Error")>> >>, FALSE, 5),
   RecoveryRule("caller_faint", << <<Lit("Cannot find module")>> >>, FALSE, 4),
   RecoveryRule("caller_throws", << <<Lit("Build failed with errors")>> >>, FALSE, 4)}

\* the patterns a caller passes to removeRecoveryRule, enableRecoveryRule and
\* disableRecoveryRule: two of the rules set up, one a caller added, one unknown
CallerPatterns ==
  {SetupRecoveryRules[1].branches, SetupRecoveryRules[5].branches,
   << <<Lit("Error")>> >>, << <<Lit("no such rule")>> >>}

\* signatures a caller passes to getRecoveryAction: those detectError returns for
\* the outputs of a failed command, and two a caller built
EngineInputs ==
  {[stderr |-> c.stderr, sig |-> c.sig] :
     c \in {d \in DetectorCalls :
              /\ d.init /\ d.sig.found
              /\ \/ d.stderr \in StderrTexts /\ d.stdout = <<>>
                 \/ d.stderr = MissingModuleText
                 \/ d.stderr = <<>> /\ d.stdout = <<W("Build failed with errors")>>}}
  \cup
  {[stderr |-> <<>>,
    sig |-> [NoSignature EXCEPT !.found = TRUE, !.rule = "auth_failed", !.type = "auth_error",
                                !.severity = "critical",
                                !.message = <<W("Authentication failed")>>]],
   [stderr |-> <<>>,
    sig |-> [NoSignature EXCEPT !.found = TRUE, !.rule = "missing_dependency",
                                !.type = "dependency_error", !.severity = "low",
                                !.message = MissingModuleText,
                                !.context = [framework |-> "svelte", platform |-> ""]]]}

\* findIndex / find by errorPattern.source (the flags are not part of the source)
IndexOfPattern(rules, pattern) ==
  Least({i \in 1..Len(rules) : rules[i].branches = pattern})

\* addRecoveryRule(rule): push
AddRecoveryRule ==
  /\ ~uncaught
  /\ Cardinality({i \in 1..Len(recoveryRules) : recoveryRules[i] \in
                     {[r EXCEPT !.enabled = e] : r \in CallerRules, e \in BOOLEAN}}) < MaxAdded
  /\ \E rule \in CallerRules :
       /\ recoveryRules' = Append(recoveryRules, rule)
       /\ engineCall' = [NoEngineCall EXCEPT !.op = "add", !.init = initialized]
  /\ UNCHANGED <<deployment, faulty, options, invoked, detectCall, polled, initialized, pc, outcome, err, attempts, awaiting, buildRuns,
                 applied, activeTasks, task, lastUpdate, dbTasks, phaseLog, events, cancelPc,
                 cancelCalls, cancelRet, runnerVars>>

\* removeRecoveryRule(pattern): splice the first rule with that pattern
RemoveRecoveryRule ==
  /\ ~uncaught
  /\ \E pattern \in CallerPatterns :
       LET index == IndexOfPattern(recoveryRules, pattern) IN
         /\ recoveryRules' =
              IF index # 0
              THEN SubSeq(recoveryRules, 1, index - 1)
                     \o SubSeq(recoveryRules, index + 1, Len(recoveryRules))
              ELSE recoveryRules
         /\ engineCall' = [NoEngineCall EXCEPT !.op = "remove", !.init = initialized,
                                               !.ret = index # 0]
  /\ UNCHANGED <<deployment, faulty, options, invoked, detectCall, polled, initialized, pc, outcome, err, attempts, awaiting, buildRuns,
                 applied, activeTasks, task, lastUpdate, dbTasks, phaseLog, events, cancelPc,
                 cancelCalls, cancelRet, runnerVars>>

\* enableRecoveryRule / disableRecoveryRule: the flag of the first rule with
\* that pattern is written
SetEnabled(op, flag) ==
  /\ ~uncaught
  /\ \E pattern \in CallerPatterns :
       LET index == IndexOfPattern(recoveryRules, pattern) IN
         /\ recoveryRules' =
              IF index # 0 THEN [recoveryRules EXCEPT ![index].enabled = flag]
              ELSE recoveryRules
         /\ engineCall' = [NoEngineCall EXCEPT !.op = op, !.init = initialized,
                                               !.ret = index # 0]
  /\ UNCHANGED <<deployment, faulty, options, invoked, detectCall, polled, initialized, pc, outcome, err, attempts, awaiting, buildRuns,
                 applied, activeTasks, task, lastUpdate, dbTasks, phaseLog, events, cancelPc,
                 cancelCalls, cancelRet, runnerVars>>

EnableRecoveryRule == SetEnabled("enable", TRUE)
DisableRecoveryRule == SetEnabled("disable", FALSE)

\* getRecoveryAction(errorSignature) called by a user of the engine
GetRecoveryAction ==
  /\ ~uncaught
  /\ \E in \in EngineInputs :
       \E action \in {getRecoveryAction(in.sig)} :
         engineCall' = [op |-> "get", init |-> initialized, stderr |-> in.stderr,
                        sig |-> in.sig, action |-> action, ret |-> FALSE]
  /\ UNCHANGED <<deployment, faulty, options, invoked, recoveryRules, detectCall, polled, initialized, pc, outcome, err, attempts,
                 awaiting, buildRuns, applied, activeTasks, task, lastUpdate, dbTasks, phaseLog,
                 events, cancelPc, cancelCalls, cancelRet, runnerVars>>

\* checkPackageManager, checkTypeScriptConfig, checkAdminAccess: each returns true
checkPackageManager(manager) == TRUE
checkTypeScriptConfig == TRUE
checkAdminAccess == TRUE

\* checkPrerequisite: the switch on the prerequisite's name
checkPrerequisite(prerequisite) ==
  CASE prerequisite \in {"npm", "yarn", "pnpm"} -> checkPackageManager(prerequisite)
    [] prerequisite = "typescript_config" -> checkTypeScriptConfig
    [] prerequisite = "admin_access" -> checkAdminAccess
    [] prerequisite \in {"user_input", "user_intervention", "user_reauth"} -> TRUE
    [] OTHER -> TRUE

\* validateActionParameters: confidence in [0, 1], estimatedTime >= 0, a known riskLevel
validateActionParameters(action) ==
  /\ ~(action.confidence < 0 \/ action.confidence > 10000)
  /\ ~(action.estimatedTime < 0)
  /\ action.riskLevel \in {"low", "medium", "high"}

\* validateRecoveryAction: every prerequisite, then the parameters
validateRecoveryAction(action) ==
  /\ \A i \in 1..Len(action.prerequisites) : checkPrerequisite(action.prerequisites[i])
  /\ validateActionParameters(action)

\* actions a caller passes to validateRecoveryAction: actions as the shipped
\* generators build them, and actions of a caller's own making
ValidateInputs ==
  {Action("install_dependency", <<W("left-pad")>>, 9500, 30, "low", <<"npm", "yarn", "pnpm">>,
          <<Alt("install_dev_dependency", 8000, <<>>)>>),
   Action("set_env_variable", <<>>, 9350, 60, "low", <<"user_input">>, <<>>),
   Action("refresh_auth_token", <<>>, 8100, 60, "low", <<"user_reauth">>, <<>>),
   Action("fix_permissions", <<>>, 8500, 30, "medium", <<"admin_access">>, <<>>),
   Action("fix_typescript_errors", <<>>, 6000, 300, "medium", <<"manual_fix">>, <<>>),
   getGenericRecoveryAction,
   Action("ask_operator", <<>>, 5000, 0, "high", <<"npm", "user_intervention">>, <<>>),
   Action("custom_fix", <<>>, 15000, 10, "low", <<>>, <<>>),
   Action("custom_fix", <<>>, 0 - 100, 10, "low", <<>>, <<>>),
   Action("custom_fix", <<>>, 5000, 0 - 1, "low", <<>>, <<>>),
   Action("custom_fix", <<>>, 5000, 10, "extreme", <<"npm">>, <<>>)}

\* validateRecoveryAction(action) called by a user of the engine
ValidateRecoveryAction ==
  /\ ~uncaught
  /\ \E action \in ValidateInputs :
       engineCall' = [NoEngineCall EXCEPT !.op = "validate", !.init = initialized,
                                         !.action = action,
                                         !.ret = validateRecoveryAction(action)]
  /\ UNCHANGED <<deployment, faulty, options, invoked, recoveryRules, detectCall, polled, initialized, pc, outcome, err, attempts,
                 awaiting, buildRuns, applied, activeTasks, task, lastUpdate, dbTasks, phaseLog,
                 events, cancelPc, cancelCalls, cancelRet, runnerVars>>

NextEngine ==
  \/ Initialize \/ AddRecoveryRule \/ RemoveRecoveryRule \/ EnableRecoveryRule
  \/ DisableRecoveryRule \/ GetRecoveryAction \/ ValidateRecoveryAction

SpecEngine == Init /\ [][NextEngine]_vars

(* ------------------------------ claims --------------------------------- *)
IsPrefix(a, b) == Len(a) <= Len(b) /\ \A i \in 1..Len(a) : a[i] = b[i]

\* C1: the status written through updateTaskStatus only moves along
\* pending -> running -> {success, failed, cancelled}: once it is success,
\* failed or cancelled no later update changes it.
C1_StatusMonotone ==
  [][lastUpdate.status \in Terminal => lastUpdate'.status = lastUpdate.status]_vars

\* C2: the build-phase recovery loop is bounded: the recovery of a failed build
\* is entered only finitely many times, so that from some point on the run is
\* never again inside executeRecoveryAction.
C2_RecoveryBounded == <>[](pc # "recover_wait")

\* C3: executeDeployment lets no failure escape: a call that ends without
\* success returned the failure result, and the status last written is failed.
C3_FailureReturned ==
  (pc = "done" /\ outcome # "success") =>
    (outcome = "failure" /\ lastUpdate.status = "failed")

\* C4: a cancelTask call on a task in activeTasks writes the status cancelled,
\* and when it returns it returns true; once a call returned true, every later
\* call returns false at once, changes no task state and emits no event.
C4_CancelIdempotent ==
  [][/\ (cancelCalls' # cancelCalls /\ TaskId \in activeTasks /\ cancelRet' # "threw")
          => (lastUpdate'.status = "cancelled" /\ cancelPc' = "await")
     /\ (cancelPc = "await" /\ cancelPc' = "idle")
          => (cancelRet' = "true" /\ TaskId \notin activeTasks')
     /\ (events.cancelled > 0 /\ cancelCalls' # cancelCalls)
          => /\ cancelRet' = "false" /\ cancelPc' = "idle"
             /\ UNCHANGED <<task, lastUpdate, dbTasks, events, activeTasks, phaseLog>>]_vars

\* a second cancelTask came back false after the first came back true
C4_Witness == events.cancelled = 1 /\ cancelCalls = 2 /\ cancelRet = "false"

\* C5: after a cancelTask that returned true, every child process of the run
\* that is still live has been sent the termination signal.
C5_CancelKills ==
  \A h \in Handles :
    (events.cancelled > 0 /\ procs[h].state = "live" /\ procs[h].owner = "run")
      => procs[h].sigterm

\* the points where a run is suspended on a process exit, on a poll response or
\* on the delay between two polls
Suspensions == {"install_run", "build_run", "recover_run", "poll_wait", "poll_sleep"}

\* C6: after cancelTask returned true for a run suspended at one of these
\* points, the run takes no further step.
C6_CancelStops ==
  [][(events.cancelled > 0 /\ pc \in Suspensions) => pc' = pc]_vars

\* progress written by the phases completed before the n-th phase is entered
Checkpoints == <<0, 10, 30, 60>>

\* C7: the phases are entered in the order detecting, installing, building,
\* deploying, each at most once and only after its predecessor completed without
\* an error; executeRecoveryAction leads back to the build only, and once a
\* build has started the run is never again in detecting or installing.
C7_PhaseOrder ==
  [][/\ IsPrefix(phaseLog', PhaseOrder)
     /\ phaseLog' # phaseLog
          => (err = NoError /\ lastUpdate.progress = Checkpoints[Len(phaseLog')])
     /\ (pc \in {"recover_wait", "recover_run"} /\ pc' # pc)
          => pc' \in {"recover_run", "build_wait", "catch"}
     /\ buildRuns' > 0
          => pc' \notin {"phase_detecting", "detect_wait", "detect_status", "detect_logs",
                         "phase_installing", "install_wait", "install_run", "install_status"}]_vars

\* all four phases were entered in a run whose build was retried after a recovery
C7_Witness == phaseLog = PhaseOrder /\ buildRuns >= 2 /\ outcome = "success"

\* the build result calls for the automatic recovery: the build failed, its
\* output has a signature, and the adjusted confidence is above 0.9
C8_AboveAutoApply(sig) == sig.found /\ getRecoveryAction(sig).confidence > 9000
C8_RetryDue(result) ==
  ~result.success /\ With(detectError(result.stderr, result.stdout), C8_AboveAutoApply)

\* C8: when a build command has exited, the action is handed to
\* executeRecoveryAction (which fails at its first line when cancelTask has
\* removed the task) exactly when the build failed, the output was classified
\* and the adjusted confidence is above 0.9; otherwise a failed build fails the
\* phase; a remedial command is spawned only for an action so handed, and the
\* build is re-entered only from executeRecoveryAction.
C8_AutoApplyRule ==
  [][/\ (pc = "build_run" /\ pc' # pc /\ procs[awaiting].promise = "resolved")
          => /\ (pc' = "recover_wait" \/ (pc' = "catch" /\ err'.kind = "type"))
                  <=> C8_RetryDue(procs[awaiting].result)
             /\ (~procs[awaiting].result.success /\ ~C8_RetryDue(procs[awaiting].result))
                  => (pc' = "catch" /\ err'.kind = "build")
             /\ pc' = "recover_wait" => applied'.confidence > 9000
     /\ pc' = "recover_run" => pc \in {"recover_wait", "recover_run"}
     /\ (pc' = "build_wait" /\ pc # "build_wait")
          => pc \in {"phase_building", "recover_wait", "recover_run"}]_vars

\* the remedial command of an install_dependency action runs after a failed build
C8_Witness ==
  pc = "recover_run" /\ applied.action = "install_dependency" /\ applied.confidence = 9500

\* prerequisites that stand for an interaction with the user
UserPrerequisites == {"user_input", "user_intervention", "user_reauth"}

\* C9: no action with a prerequisite that requires user interaction is handed
\* to executeRecoveryAction by the building phase.
C9_ValidatedOnly ==
  \A i \in DOMAIN applied.prerequisites : applied.prerequisites[i] \notin UserPrerequisites

\* C10: when the 5 s that follow the timeout's SIGTERM have passed and the child,
\* ignoring SIGTERM, still runs, it has been sent SIGKILL.
C10_TimeoutEscalates ==
  \A h \in Handles :
    (procs[h].grace = "done" /\ procs[h].state = "live" /\ procs[h].ignoresTerm)
      => procs[h].sigkill

\* C11: killProcess on an active handle sends SIGTERM and returns true, on any
\* other handle it returns false and sends nothing; and when the 5 s that follow
\* have passed and the process still runs, it has been sent SIGKILL.
C11_KillEscalates ==
  \A h \in Handles :
    /\ procs[h].killRet = "true" => (procs[h].sigterm \/ procs[h].state # "live")
    /\ (procs[h].killGrace = "done" /\ procs[h].state = "live") => procs[h].sigkill

\* C12: a spawn error and an abnormal exit both come back as a returned failure
\* result: no exception leaves the runner, and the promise of a call whose
\* process failed to spawn or exited with a non-zero code is resolved with
\* success = false, never rejected.
C12_FailureIsResult ==
  /\ ~uncaught
  /\ \A h \in Handles :
       /\ procs[h].state = "errored"
            => (procs[h].promise = "resolved" /\ ~procs[h].result.success)
       /\ (procs[h].state = "closed" /\ procs[h].result.exitCode # 0)
            => (procs[h].promise = "resolved" /\ ~procs[h].result.success)

\* C13: in the result of every settled call, success is true exactly when the
\* reported exit code is 0, so that a process ended by a signal reports a
\* failure with a non-zero exit code.
C13_SuccessIffZero ==
  \A h \in Handles :
    procs[h].promise = "resolved"
      => (procs[h].result.success <=> procs[h].result.exitCode = 0)

\* the child processes started by the run that have not exited
C14_LiveOfRun == {h \in Handles : procs[h].state = "live" /\ procs[h].owner = "run"}

\* C14: at every instant the run owns at most one live child process.
C14_OneChild == Cardinality(C14_LiveOfRun) <= 1

\* the remedial command runs, the install and the build command having exited
C14_Witness ==
  pc = "recover_run" /\ buildRuns = 1 /\ C14_LiveOfRun = {awaiting} /\ events.cancelled = 0

\* C15: the progress values written within a run never decrease, across build
\* retries, failure and cancellation included.
C15_ProgressMonotone == [][lastUpdate'.progress >= lastUpdate.progress]_vars

\* a run that failed after the deployment was created keeps progress 80
C15_Witness == lastUpdate = [status |-> "failed", progress |-> 80] /\ buildRuns >= 2

\* C16: once the run's task is stored, the record looked up by the run's task
\* identifier exists and carries the status last written by the run.
C16_StoredStatus ==
  dbTasks # <<>> => (TaskId \in DOMAIN dbTasks /\ dbTasks[TaskId].status = lastUpdate.status)

\* C17: getStatus is called at most 30 times, every call but the first after
\* the 10 s delay; an answer ready or live completes the phase (unless the
\* record store rejects the write of the result), error or failed fails it at
\* once, any other answer leads to the delay; and after the 30th such answer
\* the run fails with the timeout error instead of polling again.
C17_PollBudget ==
  [][/\ pc' = "poll_wait" => attempts' < 30
     /\ (pc' = "poll_wait" /\ pc # "poll_wait") => pc \in {"deploy_status", "poll_sleep"}
     /\ (pc = "poll_wait" /\ pc' # pc /\ err'.message # <<W("getStatus failed")>>)
          => /\ polled' \in {"ready", "live"}
                  => (pc' = "poll_result" \/ (pc' = "catch" /\ err'.kind = "db"))
             /\ polled' \in {"error", "failed"} => (pc' = "catch" /\ err'.kind = "adapter")
             /\ polled' \in {"pending", "building"} => pc' = "poll_sleep"
     /\ (pc = "poll_sleep" /\ pc' # pc)
          => /\ attempts' = attempts + 1
             /\ attempts' < 30 => pc' = "poll_wait"
             /\ attempts' >= 30 => (pc' = "catch" /\ err'.kind = "timeout")]_vars

\* the 30th poll was answered building and the run failed with the timeout error
C17_Witness == pc = "catch" /\ err.kind = "timeout" /\ attempts = 30 /\ polled = "building"

\* the entry of handle h, in activeProcesses or in the process table, changes
C18_Touched(h) ==
  procs'[h] # procs[h] \/ (h \in activeProcesses') # (h \in activeProcesses)

\* C18: processes of different callers have different handles, and an insert,
\* a signal or a remove done for one handle leaves the entry of every other
\* handle as it was: a spawn takes a handle that no process has, and every step
\* of the runner touches the entry of at most one handle.
C18_HandlesIsolated ==
  [][/\ \A h \in activeProcesses' \ activeProcesses : procs[h].state = "free"
     /\ \A g, h \in Handles : (C18_Touched(g) /\ C18_Touched(h)) => g = h]_vars

\* the process of one caller closed and left the mapping, that of another is
\* still in it
C18_Witness ==
  /\ procs[1].state = "closed" /\ 1 \notin activeProcesses
  /\ procs[2].state = "live" /\ activeProcesses = {2}

\* what detectError was given to match: stderr, a line break, stdout
C19_Combined == detectCall.stderr \o <<NL>> \o detectCall.stdout

\* the rules, by position in the table, whose pattern matches that text
C19_Hits ==
  {r \in 1..Len(SetupErrorPatterns) :
     Match(C19_Combined, SetupErrorPatterns[r].pat, SetupErrorPatterns[r].ci).ok}

\* the signature carries the name of rule r and the type, the severity and the
\* suggestions that go with that name
C19_SignatureOfRule(r) ==
  LET name == SetupErrorPatterns[r].name
      kind == SignatureKind(name, Match(C19_Combined, SetupErrorPatterns[r].pat,
                                        SetupErrorPatterns[r].ci))
  IN /\ detectCall.sig.found /\ detectCall.sig.rule = name
     /\ detectCall.sig.type = kind.type
     /\ detectCall.sig.severity = kind.severity
     /\ detectCall.sig.suggestions = kind.suggestions

\* C19: detectError of an initialized detector matches stderr followed by
\* stdout and, when some rule matches, returns the signature of the matching
\* rule registered first, wherever in the text the rules match.
C19_FirstRuleWins ==
  (detectCall.called /\ detectCall.init /\ C19_Hits # {})
    => \E r \in C19_Hits : (\A q \in C19_Hits : r <= q) /\ C19_SignatureOfRule(r)

\* an ENOENT .env message, matched by env_file_missing and by file_not_found,
\* got the signature of env_file_missing
C19_Witness ==
  /\ detectCall.called /\ detectCall.init /\ Cardinality(C19_Hits) >= 2
  /\ detectCall.sig.rule = "env_file_missing" /\ detectCall.sig.type = "build_error"
  /\ detectCall.sig.severity = "medium"

\* C20: when no rule matches, an initialized detectError returns none for a
\* stderr that is empty or blank, and otherwise the generic signature
\* (build_error, medium) whose message is the first non-empty line of stderr.
C20_GenericFromStderr ==
  (detectCall.called /\ detectCall.init /\ C19_Hits = {})
    => IF Trim(detectCall.stderr) = <<>>
       THEN ~detectCall.sig.found
       ELSE /\ detectCall.sig.found
            /\ detectCall.sig.type = "build_error" /\ detectCall.sig.severity = "medium"
            /\ detectCall.sig.message = FirstLine(TrimLeft(detectCall.stderr))

\* two texts that differ at most in the value of digit runs and of path tokens
C21_SameUpToValues(a, b) ==
  /\ Len(a) = Len(b)
  /\ \A i \in 1..Len(a) : a[i].k = b[i].k /\ (a[i].k = "w" => a[i].s = b[i].s)

\* the last two calls of detectError both returned a signature, for outputs
\* that are alike up to such values
C21_AlikeCalls ==
  /\ detectCall.called /\ detectCall.prev.called
  /\ detectCall.sig.found /\ detectCall.prev.sig.found
  /\ C21_SameUpToValues(detectCall.stderr, detectCall.prev.stderr)
  /\ C21_SameUpToValues(detectCall.stdout, detectCall.prev.stdout)

C22_Case ==
  /\ engineCall.op = "get" /\ engineCall.init
  /\ engineCall.stderr = MissingModuleText
  /\ recoveryRules = SetupRecoveryRules

\* C22: a failure whose stderr is Cannot find module 'left-pad' is classified
\* as a dependency error of high severity, and the action getRecoveryAction
\* returns for that signature is install_dependency with package left-pad and
\* a confidence of at least 0.8.
C22_LeftPad ==
  C22_Case =>
    /\ engineCall.sig.type = "dependency_error" /\ engineCall.sig.severity = "high"
    /\ engineCall.action.action = "install_dependency"
    /\ engineCall.action.pkg = <<W("left-pad")>>
    /\ engineCall.action.confidence >= 8000

\* the signature came from a run that also printed the missing module on stdout
C22_Witness ==
  /\ C22_Case
  /\ engineCall.sig.message = MissingModuleText
  /\ Len(engineCall.sig.hash) = 9 /\ engineCall.sig.hash[6] = W("cannot find module")
  /\ engineCall.action.confidence = 9500

\* C23: whatever the rules of the engine (set up or not, added, removed, enabled
\* or disabled by a caller), getRecoveryAction returns an action, never none,
\* and the confidence of that action lies between 0.1 and 1.0.
C23_AlwaysAnAction ==
  engineCall.op = "get" =>
    /\ engineCall.action.action # "none"
    /\ engineCall.action.confidence >= 1000 /\ engineCall.action.confidence <= 10000

\* the processes of the run that are in the runner's activeProcesses
C24_ActiveOfRun == {h \in activeProcesses : procs[h].owner = "run"}

\* C24: a cancelTask called while the task has no active process (a task not
\* known, a finished run, a run between two commands) returns false at once
\* and leaves the task's state as it was.
C24_CancelWithoutProcess ==
  [][(cancelCalls' # cancelCalls /\ C24_ActiveOfRun = {})
       => /\ cancelRet' = "false" /\ cancelPc' = "idle"
          /\ UNCHANGED <<task, lastUpdate, dbTasks, events, activeTasks, phaseLog>>]_vars

\* C25: when the build command has exited with code 0, buildProject writes the
\* progress 60 and calls neither detectError nor getRecoveryAction, hands no
\* action to executeRecoveryAction and emits no task:recovery; then the run
\* enters the deploying phase (a write rejected by the record store fails the
\* run instead).
C25_BuildSuccess ==
  [][/\ (/\ pc = "build_run" /\ pc' # pc
         /\ procs[awaiting].promise = "resolved"
         /\ procs[awaiting].result.exitCode = 0 /\ procs[awaiting].result.success)
          => /\ invoked' = invoked /\ applied' = applied
             /\ events'.recovery = events.recovery
             /\ \/ pc' = "build_status" /\ lastUpdate'.progress = 60 /\ lastUpdate'.status = "running"
                \/ pc' = "catch" /\ err'.kind = "db"
     /\ (pc = "build_status" /\ pc' # pc)
          => /\ invoked' = invoked /\ lastUpdate'.progress = 60
             /\ TaskId \in activeTasks => task'.progress = 60
             /\ pc' = "phase_deploying" \/ (pc' = "catch" /\ err'.kind = "db")
     /\ (pc = "phase_deploying" /\ pc' # pc)
          => (phaseLog' = Append(phaseLog, "deploying") /\ pc' = "deploy_wait")]_vars

\* the deploying phase was entered after a second build that exited with 0, the
\* first one having been classified and recovered
C25_Witness ==
  /\ pc = "deploy_wait" /\ phaseLog = PhaseOrder
  /\ lastUpdate = [status |-> "running", progress |-> 60] /\ task.progress = 60
  /\ buildRuns = 2 /\ invoked = [detect |-> 1, suggest |-> 1, caught |-> FALSE]

\* C26: buildProject is entered again after a failed build only when the
\* remedial command of the action has run: the step back into the build comes
\* from the awaited execute of executeRecoveryAction, for every action with an
\* adjusted confidence above 0.9.
C26_CommandBeforeRetry ==
  [][(pc' = "build_wait" /\ pc \notin {"build_wait", "phase_building"})
       => (pc = "recover_run" /\ applied.confidence > 9000)]_vars

\* the adjusted confidence of the action returned for the output of a failed
\* build, 0 when detectError returns no signature
C27_ConfidenceOf(sig) == IF sig.found THEN getRecoveryAction(sig).confidence ELSE 0
C27_Confidence(result) == With(detectError(result.stderr, result.stdout), C27_ConfidenceOf)

\* the build command failed with an action of confidence c
C27_Outcome(c) ==
  /\ (c > 7000 /\ c <= 9000)
       => /\ events'.recovery = Min(events.recovery + 1, MaxBuilds + 1)
          /\ pc' = "catch" /\ err'.kind = "build"
          /\ applied' = applied /\ activeProcesses' \subseteq activeProcesses
  /\ c <= 7000
       => /\ events'.recovery = events.recovery
          /\ pc' = "catch" /\ err'.kind = "build"
          /\ applied' = applied /\ activeProcesses' \subseteq activeProcesses

\* C27: a failed build whose action has an adjusted confidence above 0.7 and not
\* above 0.9 makes buildProject emit task:recovery, run no command and throw
\* the build error; with a confidence not above 0.7, or no signature, it throws
\* the build error without emitting task:recovery and without running a
\* command; and a run that failed spawns no further command.
C27_SuggestOrFail ==
  [][/\ (/\ pc = "build_run" /\ pc' # pc
         /\ procs[awaiting].promise = "resolved" /\ ~procs[awaiting].result.success)
          => With(C27_Confidence(procs[awaiting].result), C27_Outcome)
     /\ pc \in {"catch", "failed_status", "done"}
          => \A h \in Handles : procs'[h].owner = "run" => procs[h].owner = "run"]_vars

\* a build failed on a permission error (fix_permissions, 0.85): task:recovery
\* was emitted once and the run is in the catch block, no action applied
C27_Witness ==
  /\ pc = "catch" /\ err = Error("build", <<W("Build failed:")>> \o PermissionText)
  /\ events.recovery = 1 /\ applied = NoAction /\ buildRuns = 1
  /\ invoked = [detect |-> 1, suggest |-> 1, caught |-> FALSE]

C29_Case ==
  /\ phaseLog = <<"detecting">> /\ err.kind = "not_found"
  /\ pc \in {"catch", "failed_status", "done"}

\* C29: when detectProject throws because the project, the plugin or the
\* configuration is missing, the run goes to the catch block without spawning
\* a command; from there the status failed is written and the failure result
\* returned, no later phase is entered and no command is spawned.
C29_DetectFailsFast ==
  [][/\ (pc = "detect_wait" /\ pc' = "catch" /\ err'.kind = "not_found")
          => UNCHANGED <<procs, activeProcesses, awaiting, phaseLog>>
     /\ C29_Case
          => /\ phaseLog' = phaseLog /\ buildRuns' = 0
             /\ \A h \in Handles : procs'[h].owner = "run" => procs[h].owner = "run"
             /\ pc' \in {"catch", "failed_status", "done"}
             /\ (pc = "catch" /\ pc' # pc)
                  => (pc' = "failed_status" /\ lastUpdate'.status = "failed")
             /\ pc' = "done" => outcome' = "failure"]_vars

(* ------------------------------ NextConfig ------------------------------ *)
\* runs of executeDeployment over every project and with or without a build
\* command of the caller, not cancelled
NextConfig == Initialize \/ StartDeploymentWith \/ RunStep \/ ChildStep

SpecConfig == Init /\ [][NextConfig]_vars

\* the install command of a package manager
C30_InstallOf(packageManager) ==
  CASE packageManager = "yarn" -> <<"yarn", "install">>
    [] packageManager = "pnpm" -> <<"pnpm", "install">>
    [] OTHER -> <<"npm", "install">>

\* C30: the command started by the installing phase is the install command of
\* the package manager detected for the run's project, and the command started
\* by the building phase is the caller's build command when one was given and
\* otherwise the build command detected for the run's project
C30_DetectedConfigUsed ==
  [][/\ (pc = "install_wait" /\ pc' = "install_run")
          => procs'[awaiting'].command = C30_InstallOf(DetectedConfig(options.projectId).packageManager)
     /\ (pc = "build_wait" /\ pc' = "build_run")
          => procs'[awaiting'].command = IF options.buildCommand # <<>> THEN options.buildCommand
                                         ELSE DetectedConfig(options.projectId).buildCommand]_vars

\* the enabled rules of the engine whose pattern matches the message
C31_Candidates(message) ==
  {i \in 1..Len(recoveryRules) :
     recoveryRules[i].enabled /\ RuleMatch(recoveryRules[i], message).ok}

\* the candidate of highest priority, the one registered first among equals
C31_First(message) ==
  CHOOSE i \in C31_Candidates(message) :
    \A j \in C31_Candidates(message) :
      \/ recoveryRules[j].priority < recoveryRules[i].priority
      \/ recoveryRules[j].priority = recoveryRules[i].priority /\ i <= j

\* C31: the action getRecoveryAction returns is the one built by the generator
\* of the enabled rule of highest priority (the first registered among equal
\* priorities) whose pattern matches the signature's message; a disabled rule
\* is never that rule
C31_FirstEnabledRuleActs ==
  (engineCall.op = "get" /\ C31_Candidates(engineCall.sig.message) # {})
    => engineCall.action.action =
         Generate(recoveryRules[C31_First(engineCall.sig.message)].gen,
                  RuleMatch(recoveryRules[C31_First(engineCall.sig.message)],
                            engineCall.sig.message)).action

\* the rule whose generator built the action of the last getRecoveryAction call
\* (0: none did)
C32_Hit == FirstHit(SortedRules(recoveryRules), engineCall.sig.message)
C32_Base ==
  Generate(SortedRules(recoveryRules)[C32_Hit].gen,
           RuleMatch(SortedRules(recoveryRules)[C32_Hit], engineCall.sig.message)).confidence

\* the factors of the claim, in hundredths
C32_Severity ==
  CASE engineCall.sig.severity = "critical" -> 90
    [] engineCall.sig.severity = "high" -> 100
    [] engineCall.sig.severity = "medium" -> 110
    [] engineCall.sig.severity = "low" -> 120
C32_Framework ==
  IF engineCall.action.pkg = <<>> \/ engineCall.sig.context.framework = "" THEN 100
  ELSE IF engineCall.sig.context.framework \in {"react", "vue", "angular", "next", "nuxt"} THEN 100
  ELSE 80
C32_Product == (C32_Base * C32_Severity * C32_Framework) \div 10000

C33_UserPrerequisites == {"user_input", "user_intervention", "user_reauth"}
C33_NeedsUser(action) ==
  \E i \in 1..Len(action.prerequisites) : action.prerequisites[i] \in C33_UserPrerequisites
C33_Sane(action) ==
  /\ action.confidence >= 0 /\ action.confidence <= 10000
  /\ action.estimatedTime >= 0
  /\ action.riskLevel \in {"low", "medium", "high"}

\* C33: validateRecoveryAction returns true only for an action whose parameters
\* are sane (confidence in range, estimated time not negative, a known risk
\* level) and whose prerequisites are all met; a prerequisite that needs the
\* user is never met, so an action that carries one is never validated.
C33_ValidatedOnlyIfMet ==
  (engineCall.op = "validate" /\ engineCall.ret)
    => C33_Sane(engineCall.action) /\ ~C33_NeedsUser(engineCall.action)

(* ----------------------------- NextListener ----------------------------- *)
\* workflow.on('task:phase', listener) with a listener that can throw, as the
\* forwarding listener of TaskService does when one of its own listeners throws
SubscribePhase ==
  /\ ~uncaught /\ ~faulty
  /\ faulty' = TRUE
  /\ UNCHANGED <<deployment, options, invoked, recoveryRules, engineCall, detectCall, polled, initialized, pc, outcome, err, attempts,
                 awaiting, buildRuns, applied, activeTasks, task, lastUpdate, dbTasks, phaseLog,
                 events, cancelPc, cancelCalls, cancelRet, runnerVars>>

\* runs of executeDeployment with and without such a listener, not cancelled
NextListener == Initialize \/ SubscribePhase \/ RunStep \/ ChildStep

SpecListener == Init /\ [][NextListener]_vars

\* where the run is once the phase function of a phase was entered
C34_PhaseFunction(phase) ==
  CASE phase = "detecting" -> "detect_wait"
    [] phase = "installing" -> "install_wait"
    [] phase = "building" -> "build_wait"
    [] phase = "deploying" -> "deploy_wait"

\* C34: a listener that throws while handling task:phase does not fault the
\* run: whenever task:phase is published for a phase, the run goes on into the
\* function of that phase, as it does when no listener throws
C34_ListenerCannotFault ==
  [][phaseLog' # phaseLog => pc' = C34_PhaseFunction(phaseLog'[Len(phaseLog')])]_vars

(* ------------------------------ NextOutput ------------------------------ *)
\* commands whose output arrives in several chunks
ProcOutput(h) == Data(h, MaxOutputs)

OutputStep ==
  \E h \in Handles : ProcOutput(h) \/ ProcExit(h) \/ ProcSpawnError(h) \/ Collect(h)

NextOutput == Execute \/ ExecuteWithStream \/ Subscribe \/ OutputStep

SpecOutput == Init /\ [][NextOutput]_vars

\* C35: for every process, the outputs of the stdout events emitted with its
\* handle, put together in the order of emission, are the stdout text captured
\* for it, and the same for stderr; the result of a closed process holds these
\* texts trimmed.
C35_ChunksForwardedInOrder ==
  \A h \in Handles :
    /\ procs[h].state # "free"
         => procs[h].outEvents = procs[h].stdout /\ procs[h].errEvents = procs[h].stderr
    /\ procs[h].state = "closed"
         => /\ procs[h].result.stdout = Trim(procs[h].outEvents)
            /\ procs[h].result.stderr = Trim(procs[h].errEvents)

\* a command that wrote two different chunks on stderr and has closed, while
\* another command has written on stdout
C35_Witness ==
  \E h, g \in Handles :
    /\ h # g
    /\ procs[h].state = "closed" /\ procs[h].errEvents = PeerText \o PlainText
    /\ procs[g].state = "live" /\ procs[g].outEvents # <<>> /\ procs[g].errEvents = EnvVarText

\* C36: the handles in activeProcesses are exactly the handles of the processes
\* that are live, i.e. spawned and neither closed nor failed, also after
\* killProcess or the timeout sent a signal to a process that has not exited.
C36_ActiveIffLive ==
  \A h \in Handles : (h \in activeProcesses) <=> (procs[h].state = "live")

(* ------------------------------ NextKillAll ----------------------------- *)
\* killAllProcesses(): SIGTERM to every process in activeProcesses, and a 5 s
\* timer (one such timer pending at a time)
KillAllProcesses ==
  /\ ~uncaught /\ killAll # "armed"
  /\ procs' = [h \in Handles |->
                IF h \in activeProcesses
                THEN [Kill(procs[h], "SIGTERM") EXCEPT !.byKillAll = TRUE]
                ELSE procs[h]]
  /\ killAll' = "armed"
  /\ UNCHANGED <<wfVars, activeProcesses, listening, uncaught>>

\* the 5 s timer of killAllProcesses expires: SIGKILL to every process then in
\* activeProcesses whose killed flag is not set, and activeProcesses.clear()
KillAllGraceFires ==
  /\ ~uncaught /\ killAll = "armed"
  /\ procs' = [h \in Handles |->
                IF h \in activeProcesses THEN ForceKill(procs[h]) ELSE procs[h]]
  /\ activeProcesses' = {}
  /\ killAll' = "done"
  /\ UNCHANGED <<wfVars, listening, uncaught>>

KillAllStep == \E h \in Handles : ProcExit(h) \/ ProcSignalled(h) \/ Collect(h)

NextKillAll == Execute \/ KillAllProcesses \/ KillAllGraceFires \/ KillAllStep

SpecKillAll == Init /\ [][NextKillAll]_vars

\* C37: killAllProcesses and its delayed cleanup leave alone every process that
\* they did not find active at the call: such a process is sent no signal by
\* them and stays in activeProcesses.
C37_SparesLaterProcesses ==
  [][(killAll' # killAll)
       => \A h \in Handles :
            ~procs'[h].byKillAll
              => /\ procs'[h] = procs[h]
                 /\ h \in activeProcesses => h \in activeProcesses']_vars

\* C38: the result of a run that succeeded, returned by executeDeployment and
\* carried by task:completed, holds the deployId and the url the adapter
\* reported for the deployment.
C38_ResultHoldsDeployment ==
  outcome = "success"
    => /\ deployment.returned.deployId = deployment.deployId
       /\ deployment.returned.url = deployment.url

\* ---------------------------------------------------------------------------
\* Terminal lifecycle events of a run (part_003:82-113, 401-410)

TerminalEvents == {"completed", "failed", "cancelled"}

\* the terminal event that goes with a final status
TerminalEventOf(status) ==
  CASE status = "success" -> "completed"
    [] status = "failed" -> "failed"
    [] status = "cancelled" -> "cancelled"
    [] OTHER -> "none"

\* C39: a run that has ended, cancelTask interleaved or not, has emitted
\* exactly one of task:completed, task:failed and task:cancelled, that event
\* is the one of the status last written for the task, and no task:phase
\* event follows it
C39_OneTerminalEvent ==
  /\ [](pc = "done" /\ cancelPc = "idle"
          => /\ events["completed"] + events["failed"] + events["cancelled"] = 1
             /\ TerminalEventOf(lastUpdate.status) \in TerminalEvents
             /\ events[TerminalEventOf(lastUpdate.status)] = 1)
  /\ [][(\E k \in TerminalEvents : events[k] > 0) => events'["phase"] = events["phase"]]_vars

\* ---------------------------------------------------------------------------
\* Settling of execute (CommandRunner.ts:97-154)

\* C40: once the child of an execute call has closed or failed to spawn, the
\* call's promise is resolved or rejected and its handle is out of
\* activeProcesses, with or without listeners on the runner's events
C40_ExecuteSettles ==
  \A h \in Handles :
    procs[h].state \in {"closed", "errored"}
      => /\ procs[h].promise \in {"resolved", "rejected"}
         /\ h \notin activeProcesses
====
